---- MODULE Spec2Model ----
(***************************************************************************)
(* A state-machine model of the node-sqlite binding: the prepared          *)
(* statement pipeline (StatementSync, StatementSyncIterator), the          *)
(* connection object (DatabaseSync) and the aggregate / window function    *)
(* bridge (CustomAggregate).  The SQL engine is modelled through the       *)
(* documented behaviour of the sqlite3_* calls the binding makes.          *)
(***************************************************************************)
EXTENDS Integers, Sequences, FiniteSets, TLC

VARIABLES
    connection_,   \* DatabaseSync::connection_  ("null" or "db")
    table,         \* rows of table t in the database file (engine values)
    stmt,          \* the StatementSync object held by the host
    handle,        \* the engine's sqlite3_stmt behind stmt.statement_
    iter,          \* the StatementSyncIterator object held by the host
    last,          \* outcome of the most recent host call (observation)
    aggregate,     \* the CustomAggregate registered on the connection
    heap,          \* contents of the host object given as start value
    ctx,           \* per invocation: the engine's aggregate context memory
    out,           \* outcome of the most recent engine callback (observation)
    conv,          \* outcome of the most recent integer conversion (observation)
    this_thread,   \* the thread the host is running on: std::this_thread::get_id()
    lock,          \* what a lock held by another connection makes a step report
    functions,     \* the function objects registered with the engine (user_data)
    stack,         \* the host operation whose engine step is running a host callback
    ext,           \* allow_load_extension_, enable_load_extension_, the engine's flag
    backup         \* the BackupJob queued by DatabaseSync::Backup

vars == <<connection_, table, stmt, handle, iter, last, aggregate, heap, ctx, out,
          conv, this_thread, lock, functions, stack, ext, backup>>

stmtVars == <<connection_, table, stmt, handle, iter, last>>

aggVars == <<aggregate, heap, ctx, out>>

envVars == <<conv, this_thread, lock>>

dbVars == <<functions>>

runVars == <<stack, ext, backup>>

-----------------------------------------------------------------------------
(* Bounds *)

MaxRows == 2     \* table t holds at most this many rows
MaxArgs == 2     \* a host call passes at most this many arguments
MaxKeys == 1     \* an object passed for by-name binding has at most this many keys
MaxAggRows == 3  \* an aggregate invocation receives at most this many rows

-----------------------------------------------------------------------------
(* Host values (DynamicValue) and engine values (EngineValue) *)

\* props: the own enumerable properties of a plain object, in key order
HNull      == [k |-> "null",      v |-> 0, props |-> <<>>]
HUndefined == [k |-> "undefined", v |-> 0, props |-> <<>>]
HNumber(n) == [k |-> "number",    v |-> n, props |-> <<>>]
HString(n) == [k |-> "string",    v |-> n, props |-> <<>>]
HBigInt(n) == [k |-> "bigint",    v |-> n, props |-> <<>>]
HBoolean(n) == [k |-> "boolean",  v |-> n, props |-> <<>>]
\* a plain object; v = 1 when converting it to a string throws
HObject(n, ps) == [k |-> "object", v |-> n, props |-> ps]
HThrowing  == HObject(1, <<>>)

ENull       == [t |-> "NULL",    v |-> 0]
EInteger(n) == [t |-> "INTEGER", v |-> n]
EFloat(n)   == [t |-> "FLOAT",   v |-> n]
EText(n)    == [t |-> "TEXT",    v |-> n]

\* values the host passes as parameters
PosVals   == {HNumber(1), HThrowing}
NamedVals == {HNumber(5), HThrowing}

-----------------------------------------------------------------------------
(* 64-bit engine integers (sqlite3_int64), host doubles and host BigInts.  *)
(* An integer n is written <<a, b, c>> with n = a * 2^48 + b * 2^24 + c    *)
(* and 0 <= b, c < 2^24, so that the full 64-bit range and BigInts wider   *)
(* than it are told apart.  The C++ casts are computed on this form.       *)

\* the one element of a singleton set
The(S) == CHOOSE x \in S : TRUE

Limb == 4096 * 4096

MaxDelta == 2    \* integers are taken up to this distance from each boundary

WNorm(a, b, c) ==
    The({The({<<a + (b0 - (b0 % Limb)) \div Limb, b0 % Limb, c % Limb>>
                 : b0 \in {b + carry}})
            : carry \in {(c - (c % Limb)) \div Limb}})

WAdd(w, d) == WNorm(w[1], w[2], w[3] + d)

WNeg(w) == WNorm(-w[1], -w[2], -w[3])

WLe(x, y) ==
    \/ x[1] < y[1]
    \/ x[1] = y[1] /\ x[2] < y[2]
    \/ x[1] = y[1] /\ x[2] = y[2] /\ x[3] <= y[3]

WLt(x, y) == WLe(x, y) /\ x # y

WZero == <<0, 0, 0>>

\* the limits the sources compare against
W_INT32_MAX == <<0, 127, Limb - 1>>             \* 2147483647LL
W_INT32_MIN == <<-1, Limb - 128, 0>>            \* -2147483648LL
W_MAX_SAFE  == <<31, Limb - 1, Limb - 1>>       \* 0x1FFFFFFFFFFFFF
W_INT64_MAX == <<32767, Limb - 1, Limb - 1>>
W_INT64_MIN == <<-32768, 0, 0>>

\* static_cast<int32_t>: the low 32 bits, read as two's complement
ToInt32(w) ==
    IF w[2] % 256 < 128
    THEN <<0, w[2] % 256, w[3]>>
    ELSE <<-1, Limb - 256 + (w[2] % 256), w[3]>>

\* static_cast<uint64_t>: the low 64 bits, read as unsigned
ToUint64(w) == <<w[1] % 65536, w[2], w[3]>>

\* BigInt::Int64Value: the low 64 bits, read as two's complement
Int64Value(w) == <<((w[1] + 32768) % 65536) - 32768, w[2], w[3]>>

\* static_cast<double> of a 64-bit integer: the nearest double, ties to the
\* even mantissa.  A double has 53 mantissa bits: a magnitude of 2^(52+k)
\* or more keeps only the multiples of 2^k.
RECURSIVE DroppedBits(_)
DroppedBits(a) == IF a < 32 THEN 0 ELSE 1 + DroppedBits(a \div 2)

RoundMagnitude(m) ==
    The({The({WNorm(m[1], m[2],
                    (IF 2 * (m[3] % unit) > unit
                        \/ (2 * (m[3] % unit) = unit /\ (m[3] \div unit) % 2 = 1)
                     THEN (m[3] \div unit) + 1
                     ELSE m[3] \div unit) * unit)
                 : unit \in {2 ^ k}})
            : k \in {DroppedBits(m[1])}})

ToDouble(w) ==
    IF WLe(WZero, w) THEN RoundMagnitude(w) ELSE WNeg(RoundMagnitude(WNeg(w)))

\* host values over this range: a Number holding the double d, a BigInt
JSNumber(d) == [k |-> "number", v |-> d, props |-> <<>>]
JSBigInt(w) == [k |-> "bigint", v |-> w, props |-> <<>>]

\* the 64-bit integers around each limit, and the BigInts around the ends of
\* the 64-bit range
Boundaries == {WZero, W_INT32_MAX, W_INT32_MIN, W_MAX_SAFE, WNeg(W_MAX_SAFE),
               W_INT64_MAX, W_INT64_MIN}

Near(S) == {WAdd(b, d) : b \in S, d \in (-MaxDelta)..MaxDelta}

Int64s == {w \in Near(Boundaries) : WLe(W_INT64_MIN, w) /\ WLe(w, W_INT64_MAX)}

BigInts == Near(Boundaries \cup {<<65536, 0, 0>>})

-----------------------------------------------------------------------------
(* The SQL texts the host prepares.  A parameter name is <<marker, bare>>; *)
(* an anonymous "?" parameter has no name (sqlite3_bind_parameter_name     *)
(* returns NULL).                                                          *)

NullName == <<"", "">>

SqlSelectN  == "SELECT :n AS v"
SqlSelectAX == "SELECT :a_x AS p, $a_x AS q"
SqlSelectT  == "SELECT v FROM t WHERE v >= ?"
\* f is a function registered with DatabaseSync::CustomFunction whose host
\* callback returns its argument
SqlSelectF  == "SELECT f(v) AS v FROM t"

Params(sql) ==
    CASE sql = SqlSelectN  -> << <<":", "n">> >>
      [] sql = SqlSelectAX -> << <<":", "a_x">>, <<"$", "a_x">> >>
      [] sql = SqlSelectT  -> << NullName >>
      [] sql = SqlSelectF  -> <<>>

ColumnNames(sql) ==
    CASE sql = SqlSelectN  -> <<"v">>
      [] sql = SqlSelectAX -> <<"p", "q">>
      [] sql = SqlSelectT  -> <<"v">>
      [] sql = SqlSelectF  -> <<"v">>

\* keys a host object passed for by-name binding may carry
Keys(sql) ==
    CASE sql = SqlSelectN  -> {<<":", "n">>, <<"", "n">>}
      [] sql = SqlSelectAX -> {<<":", "a_x">>, <<"$", "a_x">>, <<"", "a_x">>}
      [] sql = SqlSelectT  -> {}
      [] sql = SqlSelectF  -> {}

RECURSIVE SelectGE(_, _)
SelectGE(rows, b) ==
    IF rows = <<>> THEN <<>>
    ELSE LET r == Head(rows)
             keep == r.t = "INTEGER" /\ b.t = "INTEGER" /\ r.v >= b.v
         IN  (IF keep THEN << <<r>> >> ELSE <<>>) \o SelectGE(Tail(rows), b)

\* the rows the statement produces for the given bindings and data
ResultRows(sql, binds, data) ==
    CASE sql = SqlSelectN  -> << <<binds[1]>> >>
      [] sql = SqlSelectAX -> << <<binds[1], binds[2]>> >>
      [] sql = SqlSelectT  -> SelectGE(data, binds[1])
      [] sql = SqlSelectF  -> [i \in 1..Len(data) |-> <<data[i]>>]

-----------------------------------------------------------------------------
(* The engine's prepared statement (sqlite3_stmt)                          *)

NoBinds(sql) == [i \in 1..Len(Params(sql)) |-> ENull]

NewHandle(sql) == [alive |-> TRUE, binds |-> NoBinds(sql), st |-> "ready", pos |-> 0]
NoHandle       == [alive |-> FALSE, binds |-> <<>>, st |-> "ready", pos |-> 0]

\* called with a null statement these are no-ops
sqlite3_reset(h) == IF h.alive THEN [h EXCEPT !.st = "ready", !.pos = 0] ELSE h

sqlite3_clear_bindings(h) == [h EXCEPT !.binds = [i \in DOMAIN h.binds |-> ENull]]

\* a bind is refused (SQLITE_RANGE / SQLITE_MISUSE, ignored by the caller)
\* when the index is out of range or the statement is not reset
sqlite3_bind(h, idx, ev) ==
    IF idx \in DOMAIN h.binds /\ h.st = "ready"
    THEN [h EXCEPT !.binds[idx] = ev]
    ELSE h

\* first slot whose full name is the key, 0 when there is none
sqlite3_bind_parameter_index(sql, key) ==
    LET hits == {i \in 1..Len(Params(sql)) : Params(sql)[i] = key}
    IN  IF hits = {} THEN 0 ELSE CHOOSE i \in hits : \A j \in hits : i <= j

\* one sqlite3_step: [h, rc, row].  A step on a statement that has run to
\* completion starts it again (the engine resets it automatically).
\* a statement that starts to read while another connection holds a lock
\* reports SQLITE_BUSY or SQLITE_LOCKED and stays where it was
sqlite3_step(sql, h0, data) ==
    LET h    == IF h0.st = "halt" THEN sqlite3_reset(h0) ELSE h0
        rows == ResultRows(sql, h.binds, data)
    IN  IF ~h0.alive
        THEN [h |-> h0, rc |-> "SQLITE_MISUSE", row |-> <<>>]
        ELSE IF lock # "none" /\ h.pos = 0
        THEN [h |-> h, rc |-> lock, row |-> <<>>]
        ELSE IF h.pos < Len(rows)
        THEN [h   |-> [h EXCEPT !.st = "run", !.pos = h.pos + 1],
              rc  |-> "SQLITE_ROW",
              row |-> rows[h.pos + 1]]
        ELSE [h   |-> [h EXCEPT !.st = "halt"],
              rc  |-> "SQLITE_DONE",
              row |-> <<>>]

-----------------------------------------------------------------------------
(* StatementSync: parameter binding                                        *)

INT32_MAX == 2147483647
INT32_MIN == (-2147483647) - 1

\* the Host -> Engine conversion of BindSingleParameter: [threw, ev]
HostToEngine(param) ==
    CASE param.k \in {"null", "undefined"} -> [threw |-> FALSE, ev |-> ENull]
      [] param.k = "number" ->
            IF param.v >= INT32_MIN /\ param.v <= INT32_MAX
            THEN [threw |-> FALSE, ev |-> EInteger(param.v)]
            ELSE [threw |-> FALSE, ev |-> EFloat(param.v)]
      [] param.k = "string" -> [threw |-> FALSE, ev |-> EText(param.v)]
      [] param.k = "object" ->
            IF param.v = 1
            THEN [threw |-> TRUE,  ev |-> ENull]
            ELSE [threw |-> FALSE, ev |-> EText(0)]


\* acc is [h, err, bound, calls]: the handle, the pending host exception,
\* the slots bound so far by this call, the engine calls made on the handle
BindSingleParameter(st, acc, idx, param) ==
    IF st.statement_ = "null" \/ st.finalized_ THEN acc
    ELSE LET c == HostToEngine(param)
         IN  IF c.threw
             THEN [acc EXCEPT !.err = "ERR_INVALID_ARG_VALUE"]
             ELSE [acc EXCEPT !.h = sqlite3_bind(acc.h, idx, c.ev),
                              !.bound = acc.bound \cup ({idx} \cap DOMAIN acc.h.binds),
                              !.calls = acc.calls \o <<"bind">>]

StripMarker(name) == <<"", name[2]>>

\* the loop that fills bare_named_params_: stops at the first conflict
RECURSIVE BuildBareNamedParams(_, _, _)
BuildBareNamedParams(sql, i, m) ==
    IF i > Len(Params(sql)) THEN [map |-> m, conflict |-> FALSE]
    ELSE LET name == Params(sql)[i]
             bare == StripMarker(name)
         IN  IF name = NullName THEN BuildBareNamedParams(sql, i + 1, m)
             ELSE IF \E p \in m : p[1] = bare
             THEN IF (CHOOSE p \in m : p[1] = bare)[2] # name
                  THEN [map |-> m, conflict |-> TRUE]
                  ELSE BuildBareNamedParams(sql, i + 1, m)
             ELSE BuildBareNamedParams(sql, i + 1, m \cup {<<bare, name>>})

RECURSIVE BindNamed(_, _, _, _)
BindNamed(st, acc, props, j) ==
    IF j > Len(props) THEN acc
    ELSE LET key    == props[j].key
             direct == sqlite3_bind_parameter_index(st.sql, key)
             found  == /\ direct = 0
                       /\ st.allow_bare_named_params_
                       /\ st.bare_has
                       /\ \E p \in st.bare_map : p[1] = key
             idx    == IF found
                       THEN sqlite3_bind_parameter_index(
                                st.sql, (CHOOSE p \in st.bare_map : p[1] = key)[2])
                       ELSE direct
             acc1   == [acc EXCEPT !.calls = acc.calls \o <<"bind_parameter_index">>]
         IN  The({IF acc2.err # "none" THEN acc2
                  ELSE BindNamed(st, acc2, props, j + 1) :
                  acc2 \in {IF idx > 0
                            THEN BindSingleParameter(st, acc1, idx, props[j].val)
                            ELSE acc1}})

RECURSIVE BindPositional(_, _, _, _)
BindPositional(st, acc, info, i) ==
    IF i > Len(info) THEN acc
    ELSE The({IF acc1.err # "none" THEN acc1
              ELSE BindPositional(st, acc1, info, i + 1) :
              acc1 \in {BindSingleParameter(st, acc, i, info[i])}})

IsNamedCall(info) == Len(info) = 1 /\ info[1].k = "object"

\* BindParameters: [st, h, err, bound, calls]
BindParameters(st, h, open, info) ==
    LET acc0 == [h |-> h, err |-> "none", bound |-> {}, calls |-> <<>>]
        done(s, a) == [st |-> s, h |-> a.h, err |-> a.err, bound |-> a.bound,
                      calls |-> a.calls]
    IN  IF st.finalized_ \/ ~open \/ st.statement_ = "null"
        THEN done(st, [acc0 EXCEPT !.err = "ERR_INVALID_STATE"])
        ELSE IF IsNamedCall(info)
        THEN IF st.allow_bare_named_params_ /\ ~st.bare_has
             THEN LET b   == BuildBareNamedParams(st.sql, 1, {})
                      st1 == [st EXCEPT !.bare_has = TRUE, !.bare_map = b.map]
                      acc1 == [acc0 EXCEPT !.calls = <<"bind_parameter_count">>]
                  IN  IF b.conflict
                      THEN done(st1, [acc1 EXCEPT !.err = "ERR_INVALID_STATE"])
                      ELSE done(st1, BindNamed(st1, acc1, info[1].props, 1))
             ELSE done(st, BindNamed(st, acc0, info[1].props, 1))
        ELSE done(st, BindPositional(st, acc0, info, 1))

-----------------------------------------------------------------------------
(* StatementSync: row materialization and reset                            *)

\* the Engine -> Host conversion of a fetched column
ColumnToHost(ev, use_big_ints) ==
    CASE ev.t = "NULL"    -> HNull
      [] ev.t = "INTEGER" ->
            IF use_big_ints THEN HBigInt(ev.v)
            ELSE IF ev.v > INT32_MAX \/ ev.v < INT32_MIN THEN HBigInt(ev.v)
            ELSE HNumber(ev.v)
      [] ev.t = "FLOAT"   -> HNumber(ev.v)
      [] ev.t = "TEXT"    -> HString(ev.v)

\* CreateResult: [err, row]; a row is [arr, names, vals]
NoRow == [arr |-> FALSE, names |-> <<>>, vals |-> <<>>]

CreateResult(st, open, row) ==
    IF st.statement_ = "null" \/ st.finalized_ \/ ~open
    THEN [err |-> "ERR_INVALID_STATE", row |-> NoRow]
    ELSE [err |-> "none",
          row |-> [arr   |-> st.return_arrays_,
                   names |-> IF st.return_arrays_ THEN <<>> ELSE ColumnNames(st.sql),
                   vals  |-> [i \in 1..Len(row) |->
                                 ColumnToHost(row[i], st.use_big_ints_)]]]

\* the SQLITE_INTEGER case of CreateResult over the full 64-bit range, with
\* the lower limit of the range test left out
CreateResultIntegerUpperOnly(int_val, use_big_ints_, return_arrays_) ==
    IF use_big_ints_ THEN JSBigInt(int_val)
    ELSE IF WLt(W_INT32_MAX, int_val) THEN JSBigInt(int_val)
    ELSE JSNumber(ToInt32(int_val))

\* the SQLITE_INTEGER case of CreateResult over the full 64-bit range: the
\* array shape and the object shape each have their own copy of it
CreateResultInteger(int_val, use_big_ints_, return_arrays_) ==
    IF return_arrays_
    THEN IF use_big_ints_ THEN JSBigInt(int_val)
         ELSE IF WLt(W_INT32_MAX, int_val) \/ WLt(int_val, W_INT32_MIN)
         THEN JSBigInt(int_val)
         ELSE JSNumber(ToInt32(int_val))
    ELSE IF use_big_ints_ THEN JSBigInt(int_val)
         ELSE IF WLt(W_INT32_MAX, int_val) \/ WLt(int_val, W_INT32_MIN)
         THEN JSBigInt(int_val)
         ELSE JSNumber(ToInt32(int_val))

\* the lastInsertRowid property of the object Run returns
LastInsertRowid(last_rowid) ==
    IF WLt(W_INT32_MAX, last_rowid)
    THEN JSBigInt(ToUint64(last_rowid))
    ELSE JSNumber(ToInt32(last_rowid))

\* Reset with the sqlite3_reset call left out: the cursor stays where the
\* previous operation left it
ResetKeepsCursor(st, h) ==
    IF st.statement_ = "null" \/ st.finalized_ THEN h
    ELSE sqlite3_clear_bindings(h)

Reset(st, h) ==
    IF st.statement_ = "null" \/ st.finalized_ THEN h
    ELSE sqlite3_clear_bindings(sqlite3_reset(h))

\* the engine calls Reset makes
ResetCalls(st) ==
    IF st.statement_ = "null" \/ st.finalized_ THEN <<>>
    ELSE <<"reset", "clear_bindings">>

\* the entry checks with only the connection check kept
StateGuardOpenOnly(st, open) == ~open

\* the three checks every statement method starts with
StateGuard(st, open) == st.finalized_ \/ ~open \/ st.statement_ = "null"

-----------------------------------------------------------------------------
(* Objects and observations                                                *)

NoStmt == [exists |-> FALSE, sql |-> SqlSelectN, statement_ |-> "null",
           finalized_ |-> FALSE, use_big_ints_ |-> FALSE,
           return_arrays_ |-> FALSE, allow_bare_named_params_ |-> FALSE,
           bare_has |-> FALSE, bare_map |-> {},
           \* history: finalize() was called on it; its connection was
           \* closed; a flag setter changed one of its flags
           finalizeCalled |-> FALSE, connClosed |-> FALSE,
           flagsSet |-> FALSE]

\* the iterator's fields and its history:
\*   expected  the result set of the execution Iterate created it for
\*   n         how many rows it has yielded
\*   prefix    every row it yielded was the next row of expected (once
\*             one was not, expected and n are no longer kept)
NoIter == [exists |-> FALSE, done_ |-> FALSE, stepped |-> FALSE, bound |-> {},
           expected |-> <<>>, n |-> 0, prefix |-> TRUE]

\* the iterator after it yielded the engine row
Yielded(it, row) ==
    IF it.prefix /\ it.n < Len(it.expected) /\ row = it.expected[it.n + 1]
    THEN [it EXCEPT !.n = it.n + 1]
    ELSE [it EXCEPT !.n = 0, !.expected = <<>>, !.prefix = FALSE]

IsOpen == connection_ # "null"

\* no engine step of the statement is on the stack
NoStack == [op |-> "none", rows |-> <<>>]

\* the extension flags of a DatabaseSync constructed without options, the
\* engine's SQLITE_DBCONFIG_ENABLE_LOAD_EXTENSION flag of its connection,
\* and the history the flags are compared with:
\*   configured  the configuration of the current open allowed extensions
\*   accepted    the most recent enableLoadExtension since that open was
\*               enableLoadExtension(true) and the engine accepted it
NoExt == [allow_load_extension_ |-> FALSE, enable_load_extension_ |-> FALSE,
          db_config |-> FALSE, configured |-> FALSE, accepted |-> FALSE]

\* The BackupJob and the engine's sqlite3_backup behind it:
\*   state      "none", "queued" (Queue called, Execute not started),
\*              "copying" (the worker is in the loop of Execute),
\*              "executed" (Execute returned), "settled", "crashed"
\*   pages_     the rate option
\*   source     the handle Execute read from source_->connection()
\*   src_pages, copied, pagecount: the pages of the source database, the
\*              pages copied so far, sqlite3_backup_pagecount
\*   error      SetError was called
\*   turn       parity of the loop iterations Execute has made
\*   settled    how many times the promise was resolved or rejected
NoBackup == [state |-> "none", pages_ |-> 0, source |-> "none",
             src_pages |-> 0, copied |-> 0, pagecount |-> 0,
             remaining_pages |-> 0, total_pages_ |-> 0,
             backup_status_ |-> "SQLITE_OK", error |-> FALSE,
             settled |-> 0, outcome |-> "none", value |-> 0, turn |-> 0]

\* The function objects (UserDefinedFunction, CustomAggregate) handed to the
\* engine as user_data, numbered in the order they are created:
\*   reg       the object registered under each name on the open connection
\*   zombie    the objects of a connection closed with a statement alive
\*   created   how many objects have been created
\*   released  how many times each object has been deleted
MaxObjects == 3  \* at most this many function objects are created

Names == {"f", "g"}

Objects == 1..MaxObjects

NoFunctions == [reg |-> [n \in Names |-> 0], zombie |-> {}, created |-> 0,
                released |-> [o \in Objects |-> 0]]

\* delete of each object of objs
Delete(f, objs) ==
    [f EXCEPT !.released = [o \in DOMAIN f.released |->
                               IF o \in objs THEN f.released[o] + 1
                               ELSE f.released[o]]]

\* sqlite3_create_function_v2 / sqlite3_create_window_function with the
\* destructor xDestroy: the engine calls xDestroy on the object a new
\* registration replaces, and on the new object when it rejects the
\* registration: [f, rc]
sqlite3_create_function_v2(f, name, obj, accepted) ==
    IF accepted
    THEN [f  |-> [Delete(f, {f.reg[name]} \ {0}) EXCEPT !.reg[name] = obj],
          rc |-> "SQLITE_OK"]
    ELSE [f |-> Delete(f, {obj}), rc |-> "SQLITE_ERROR"]

\* sqlite3_close, and sqlite3_close_v2 after it failed: with no statement
\* alive the connection is freed and xDestroy is called on every
\* registered object; with one alive the connection lives on as a zombie
sqlite3_close(f, h) ==
    IF h.alive
    THEN [f EXCEPT !.zombie = f.zombie \cup ({f.reg[n] : n \in Names} \ {0}),
                   !.reg = [n \in Names |-> 0]]
    ELSE [Delete(f, {f.reg[n] : n \in Names} \ {0})
              EXCEPT !.reg = [n \in Names |-> 0]]

\* sqlite3_finalize of a live statement: the last statement of a zombie
\* connection frees it
sqlite3_finalize(f, h) ==
    IF h.alive THEN [Delete(f, f.zombie) EXCEPT !.zombie = {}] ELSE f

\* the thread that constructed the connection, and through Prepare every
\* statement; ValidateThread of DatabaseSync and of StatementSync
creation_thread_ == "main"

ValidateThread == this_thread = creation_thread_

\* what the host observes of a call, and what the engine saw of it:
\*   err       the host exception the call ends with ("none": it returned)
\*   calls     the engine calls made on the statement handle, in order
\*   rows      the rows returned
\*   bound     the slots this call's arguments bound
\*   stepBinds the bindings in place at the call's first engine step
\*   preFin, preClosed: the statement was finalized / its connection had
\*             been closed when the call started
\*   changed   the call changed the statement object or its handle
\*   preCursor the statement's cursor when the call started
\*   thread    the thread the call was made on
Obs(op, info, err, calls, rows, bound, stepBinds, changed) ==
    [op |-> op, info |-> info, err |-> err, calls |-> calls, rows |-> rows,
     bound |-> bound, stepBinds |-> stepBinds,
     preFin |-> stmt.finalizeCalled, preClosed |-> stmt.connClosed,
     preCursor |-> handle.pos, preDone |-> iter.done_, changed |-> changed,
     thread |-> this_thread]

NoObs == [op |-> "none", info |-> <<>>, err |-> "none", calls |-> <<>>,
          rows |-> <<>>, bound |-> {}, stepBinds |-> <<>>,
          preFin |-> FALSE, preClosed |-> FALSE, preCursor |-> 0,
          preDone |-> FALSE, changed |-> FALSE, thread |-> creation_thread_]

StateError(op, info) ==
    Obs(op, info, "ERR_INVALID_STATE", <<>>, <<>>, {}, <<>>, FALSE)

\* the arguments a host call may pass
RECURSIVE SeqsUpTo(_, _)
SeqsUpTo(S, n) ==
    IF n = 0 THEN {<<>>}
    ELSE LET shorter == SeqsUpTo(S, n - 1)
         IN  shorter \cup {Append(q, x) : q \in shorter, x \in S}

Props(sql) == {[key |-> key, val |-> val] : key \in Keys(sql), val \in NamedVals}

DistinctKeys(ps) == \A i, j \in 1..Len(ps) : i # j => ps[i].key # ps[j].key

PosInfos == SeqsUpTo(PosVals, MaxArgs)

NamedInfos(sql) ==
    {<<HObject(0, ps)>> : ps \in {q \in SeqsUpTo(Props(sql), MaxKeys) : DistinctKeys(q)}}

NamedInfosN  == NamedInfos(SqlSelectN)
NamedInfosAX == NamedInfos(SqlSelectAX)

BindInfos == PosInfos \cup (IF stmt.sql = SqlSelectN THEN NamedInfosN ELSE NamedInfosAX)

-----------------------------------------------------------------------------
(* StatementSync methods.  A THROW_ERR_* call leaves a host exception      *)
(* pending and returns to its caller: the method goes on unless it         *)
(* returns itself.  While an exception is pending the host refuses to      *)
(* create instances or set properties, so no result reaches the caller.    *)

\* the exception a method ends with: the one already pending, else the
\* ERR_SQLITE_ERROR raised for a step that is neither ROW nor DONE
StepError(pending, rc) ==
    IF pending # "none" THEN pending
    ELSE IF rc = "SQLITE_BUSY" THEN "ERR_SQLITE_ERROR: database is locked"
    ELSE IF rc = "SQLITE_LOCKED" THEN "ERR_SQLITE_ERROR: database table is locked"
    ELSE IF rc \notin {"SQLITE_ROW", "SQLITE_DONE"} THEN "ERR_SQLITE_ERROR"
    ELSE "none"

\* Reset(); BindParameters(info): [st, h, err, bound, calls]
ResetAndBind(info) ==
    The({[b EXCEPT !.calls = ResetCalls(stmt) \o b.calls] :
         b \in {BindParameters(stmt, h, IsOpen, info) : h \in {Reset(stmt, handle)}}})

Run(info) ==
    /\ stmt.exists
    /\ IF ~ValidateThread \/ StateGuard(stmt, IsOpen)
       THEN /\ last' = StateError("run", info)
            /\ UNCHANGED <<connection_, table, stmt, handle, iter>>
       ELSE \E b \in {ResetAndBind(info)} :
            \E s \in {sqlite3_step(stmt.sql, b.h, table)} :
                /\ stmt' = b.st
                /\ handle' = s.h
                /\ last' = Obs("run", info, StepError(b.err, s.rc),
                               b.calls \o <<"step">>, <<>>,
                               b.bound, b.h.binds, TRUE)
                /\ UNCHANGED <<connection_, table, iter>>
    /\ UNCHANGED <<aggVars, envVars, dbVars, runVars>>

Get(info) ==
    /\ stmt.exists
    /\ IF ~ValidateThread \/ StateGuard(stmt, IsOpen)
       THEN /\ last' = StateError("get", info)
            /\ UNCHANGED <<connection_, table, stmt, handle, iter>>
       ELSE \E b \in {ResetAndBind(info)} :
            \E s \in {sqlite3_step(stmt.sql, b.h, table)} :
            LET r == CreateResult(b.st, IsOpen, s.row)
                got == s.rc = "SQLITE_ROW" /\ b.err = "none"
            IN  /\ stmt' = b.st
                /\ handle' = s.h
                /\ last' = Obs("get", info, StepError(b.err, s.rc),
                               b.calls \o <<"step">>
                                   \o (IF s.rc = "SQLITE_ROW" THEN <<"column">> ELSE <<>>),
                               IF got THEN <<r.row>> ELSE <<>>,
                               b.bound, b.h.binds, TRUE)
                /\ UNCHANGED <<connection_, table, iter>>
    /\ UNCHANGED <<aggVars, envVars, dbVars, runVars>>

\* the while (true) loop of All: [h, rows, calls].  With an exception
\* already pending, storing the first row throws and ends the loop.
RECURSIVE AllLoop(_, _, _, _, _)
AllLoop(st, acc, data, pending, open) ==
    The({LET r == CreateResult(st, open, s.row)
             acc1 == [h |-> s.h, rows |-> acc.rows, rc |-> s.rc,
                      calls |-> acc.calls \o <<"step">>]
         IN  IF s.rc = "SQLITE_ROW"
             THEN IF pending
                  THEN [acc1 EXCEPT !.calls = acc1.calls \o <<"column">>]
                  ELSE The({AllLoop(st, acc2, data, pending, open) :
                            acc2 \in {[acc1 EXCEPT !.rows = Append(acc.rows, r.row),
                                                   !.calls = acc1.calls \o <<"column">>]}})
             ELSE acc1 :
         s \in {sqlite3_step(st.sql, acc.h, data)}})

All(info) ==
    /\ stmt.exists
    /\ IF StateGuard(stmt, IsOpen)
       THEN /\ last' = StateError("all", info)
            /\ UNCHANGED <<connection_, table, stmt, handle, iter>>
       ELSE \E b \in {ResetAndBind(info)} :
            \E a \in {AllLoop(b.st, [h |-> b.h, rows |-> <<>>, rc |-> "SQLITE_DONE",
                                     calls |-> b.calls],
                              table, b.err # "none", IsOpen)} :
            LET err == StepError(b.err, a.rc)
                rows == IF err = "none" THEN a.rows ELSE <<>>
            IN  /\ stmt' = b.st
                /\ handle' = a.h
                /\ last' = Obs("all", info, err, a.calls, rows,
                               b.bound, b.h.binds, TRUE)
                /\ UNCHANGED <<connection_, table, iter>>
    /\ UNCHANGED <<aggVars, envVars, dbVars, runVars>>

\* Iterate: one sqlite3_reset (no clear_bindings), BindParameters, then the
\* iterator object is created
Iterate(info) ==
    /\ stmt.exists
    /\ IF StateGuard(stmt, IsOpen)
       THEN /\ last' = StateError("iterate", info)
            /\ UNCHANGED <<connection_, table, stmt, handle, iter>>
       ELSE \E b \in {BindParameters(stmt, sqlite3_reset(handle), IsOpen, info)} :
                /\ stmt' = b.st
                /\ handle' = b.h
                /\ iter' = IF b.err = "none"
                           THEN [exists |-> TRUE, done_ |-> FALSE,
                                 stepped |-> FALSE, bound |-> b.bound,
                                 expected |-> ResultRows(stmt.sql, b.h.binds, table),
                                 n |-> 0, prefix |-> TRUE]
                           ELSE iter
                /\ last' = Obs("iterate", info, b.err, <<"reset">> \o b.calls,
                               <<>>, b.bound, <<>>, b.err = "none")
                /\ UNCHANGED <<connection_, table>>
    /\ UNCHANGED <<aggVars, envVars, dbVars, runVars>>

FinalizeStatement ==
    /\ stmt.exists
    /\ IF stmt.statement_ # "null" /\ ~stmt.finalized_
       THEN /\ handle' = NoHandle
            /\ stmt' = [stmt EXCEPT !.statement_ = "null", !.finalized_ = TRUE,
                                    !.finalizeCalled = TRUE]
            /\ last' = Obs("finalize", <<>>, "none", <<"finalize">>, <<>>, {},
                           <<>>, TRUE)
       ELSE /\ last' = Obs("finalize", <<>>, "none", <<>>, <<>>, {}, <<>>, FALSE)
            /\ stmt' = [stmt EXCEPT !.finalizeCalled = TRUE]
            /\ UNCHANGED handle
    /\ functions' = IF stmt.statement_ # "null" /\ ~stmt.finalized_
                    THEN sqlite3_finalize(functions, handle) ELSE functions
    /\ UNCHANGED <<connection_, table, iter>>
    /\ UNCHANGED <<aggVars, envVars, runVars>>

ExpandedSQLGetter ==
    /\ stmt.exists
    /\ last' = IF stmt.finalized_ \/ ~IsOpen
               THEN StateError("expandedSQL", <<>>)
               ELSE Obs("expandedSQL", <<>>, "none",
                        IF stmt.statement_ # "null" THEN <<"expanded_sql">> ELSE <<>>,
                        <<>>, {}, <<>>, FALSE)
    /\ UNCHANGED <<connection_, table, stmt, handle, iter>>
    /\ UNCHANGED <<aggVars, envVars, dbVars, runVars>>

\* the three flag setters share one shape
SetFlag(op, arg, new) ==
    /\ stmt.exists
    /\ IF stmt.finalized_ \/ ~IsOpen
       THEN last' = StateError(op, <<arg>>) /\ UNCHANGED stmt
       ELSE IF arg.k # "boolean"
       THEN /\ last' = Obs(op, <<arg>>, "ERR_INVALID_ARG_TYPE", <<>>, <<>>, {},
                           <<>>, FALSE)
            /\ UNCHANGED stmt
       ELSE /\ stmt' = [new EXCEPT !.flagsSet = stmt.flagsSet \/ new # stmt]
            /\ last' = Obs(op, <<arg>>, "none", <<>>, <<>>, {}, <<>>, new # stmt)
    /\ UNCHANGED <<connection_, table, handle, iter>>
    /\ UNCHANGED <<aggVars, envVars, dbVars, runVars>>

SetReadBigInts(arg) ==
    SetFlag("setReadBigInts", arg, [stmt EXCEPT !.use_big_ints_ = (arg.v = 1)])

SetReturnArrays(arg) ==
    SetFlag("setReturnArrays", arg, [stmt EXCEPT !.return_arrays_ = (arg.v = 1)])

SetAllowBareNamedParameters(arg) ==
    SetFlag("setAllowBareNamedParameters", arg,
            [stmt EXCEPT !.allow_bare_named_params_ = (arg.v = 1)])

Columns ==
    /\ stmt.exists
    /\ last' = IF StateGuard(stmt, IsOpen)
               THEN StateError("columns", <<>>)
               ELSE Obs("columns", <<>>, "none", <<"column_count", "column">>,
                        <<>>, {}, <<>>, FALSE)
    /\ UNCHANGED <<connection_, table, stmt, handle, iter>>
    /\ UNCHANGED <<aggVars, envVars, dbVars, runVars>>

-----------------------------------------------------------------------------
(* StatementSyncIterator                                                   *)

IterNext ==
    /\ iter.exists
    /\ IF stmt.finalized_ \/ ~IsOpen
       THEN /\ last' = StateError("next", <<>>)
            /\ UNCHANGED <<handle, iter>>
       ELSE IF iter.done_
       THEN /\ last' = Obs("next", <<>>, "none", <<>>, <<>>, {}, <<>>, FALSE)
            /\ UNCHANGED <<handle, iter>>
       ELSE \E s \in {sqlite3_step(stmt.sql, handle, table)} :
            LET r == CreateResult(stmt, IsOpen, s.row)
                first == IF iter.stepped THEN <<>> ELSE handle.binds
            IN  /\ IF s.rc \notin {"SQLITE_ROW", "SQLITE_DONE"}
                   THEN /\ handle' = s.h
                        /\ iter' = [iter EXCEPT !.stepped = TRUE]
                        /\ last' = Obs("next", <<>>, StepError("none", s.rc), <<"step">>,
                                       <<>>, iter.bound, first, TRUE)
                   ELSE IF s.rc = "SQLITE_ROW"
                   THEN /\ handle' = s.h
                        /\ iter' = [Yielded(iter, s.row) EXCEPT !.stepped = TRUE]
                        /\ last' = Obs("next", <<>>, "none", <<"step", "column">>,
                                       <<r.row>>, iter.bound, first, TRUE)
                   ELSE /\ handle' = sqlite3_reset(s.h)
                        /\ iter' = [iter EXCEPT !.stepped = TRUE, !.done_ = TRUE]
                        /\ last' = Obs("next", <<>>, "none", <<"step", "reset">>,
                                       <<>>, iter.bound, first, TRUE)
    /\ UNCHANGED <<connection_, table, stmt>>
    /\ UNCHANGED <<aggVars, envVars, dbVars, runVars>>

\* Return with the done_ = true assignment left out
ReturnNotFinished ==
    /\ iter.exists
    /\ IF stmt.finalized_ \/ ~IsOpen
       THEN /\ last' = StateError("return", <<>>)
            /\ UNCHANGED <<handle, iter>>
       ELSE /\ handle' = sqlite3_reset(handle)
            /\ iter' = iter
            /\ last' = Obs("return", <<>>, "none", <<"reset">>, <<>>, {}, <<>>, TRUE)
    /\ UNCHANGED <<connection_, table, stmt>>
    /\ UNCHANGED <<aggVars, envVars, dbVars, runVars>>

Return ==
    /\ iter.exists
    /\ IF stmt.finalized_ \/ ~IsOpen
       THEN /\ last' = StateError("return", <<>>)
            /\ UNCHANGED <<handle, iter>>
       ELSE /\ handle' = sqlite3_reset(handle)
            /\ iter' = [iter EXCEPT !.done_ = TRUE]
            /\ last' = Obs("return", <<>>, "none", <<"reset">>, <<>>, {}, <<>>, TRUE)
    /\ UNCHANGED <<connection_, table, stmt>>
    /\ UNCHANGED <<aggVars, envVars, dbVars, runVars>>

-----------------------------------------------------------------------------
(* DatabaseSync: open, close, prepare; teardown of the statement object    *)

\* the allowExtension property of a configuration object: not a boolean
\* (or not there), true, false
AllowExtensions == {"absent", "true", "false"}

\* Open with a configuration object: allow_load_extension_ is assigned only
\* when the object has a boolean allowExtension
OpenWith(allowExtension) ==
    /\ IF IsOpen
       THEN /\ last' = StateError("open", <<>>)
            /\ UNCHANGED <<connection_, ext>>
       ELSE /\ connection_' = "db"
            /\ ext' = [ext EXCEPT !.allow_load_extension_ =
                                      IF allowExtension = "absent" THEN @
                                      ELSE allowExtension = "true",
                                  !.configured = (allowExtension = "true")]
            /\ last' = Obs("open", <<>>, "none", <<>>, <<>>, {}, <<>>, FALSE)
    /\ UNCHANGED <<table, stmt, handle, iter>>
    /\ UNCHANGED <<aggVars, envVars, dbVars, stack, backup>>

\* Open with a configuration that has no allowExtension
Open == OpenWith("absent")

\* EnableLoadExtension(enable): sqlite3_db_config with
\* SQLITE_DBCONFIG_ENABLE_LOAD_EXTENSION on an open connection sets the
\* engine's flag and returns SQLITE_OK
EnableLoadExtension(enable) ==
    /\ IF ~IsOpen \/ (~ext.allow_load_extension_ /\ enable)
       THEN /\ last' = StateError("enableLoadExtension", <<HBoolean(IF enable THEN 1 ELSE 0)>>)
            /\ UNCHANGED ext
       ELSE /\ ext' = [ext EXCEPT !.enable_load_extension_ = enable,
                                  !.db_config = enable,
                                  !.accepted = enable]
            /\ last' = Obs("enableLoadExtension", <<HBoolean(IF enable THEN 1 ELSE 0)>>, "none",
                           <<"db_config">>, <<>>, {}, <<>>, FALSE)
    /\ UNCHANGED <<connection_, table, stmt, handle, iter>>
    /\ UNCHANGED <<aggVars, envVars, dbVars, stack, backup>>

\* LoadExtension(path): sqlite3_load_extension is reached when the three
\* checks pass; the engine loads the file or reports an error
LoadExtension(loaded) ==
    /\ IF ~IsOpen \/ ~ext.allow_load_extension_ \/ ~ext.enable_load_extension_
       THEN last' = StateError("loadExtension", <<>>)
       ELSE last' = Obs("loadExtension", <<>>,
                        IF loaded /\ ext.db_config THEN "none" ELSE "ERR_SQLITE_ERROR",
                        <<"load_extension">>, <<>>, {}, <<>>, FALSE)
    /\ UNCHANGED <<connection_, table, stmt, handle, iter>>
    /\ UNCHANGED <<aggVars, envVars, dbVars, runVars>>

\* InternalClose: prepared_statements_ is never filled, so clearing it
\* finalizes nothing; sqlite3_close_v2 leaves live statement handles usable
InternalClose ==
    /\ connection_' = "null"
    /\ stmt' = IF stmt.exists THEN [stmt EXCEPT !.connClosed = TRUE] ELSE stmt
    /\ functions' = sqlite3_close(functions, handle)
    /\ ext' = [ext EXCEPT !.enable_load_extension_ = FALSE, !.db_config = FALSE,
                          !.accepted = FALSE]

Close ==
    /\ IF ~ValidateThread \/ ~IsOpen
       THEN /\ last' = StateError("close", <<>>)
            /\ UNCHANGED <<connection_, stmt, functions, ext>>
       ELSE /\ InternalClose
            /\ last' = Obs("close", <<>>, "none", <<>>, <<>>, {}, <<>>, FALSE)
    /\ UNCHANGED <<table, handle, iter>>
    /\ UNCHANGED <<aggVars, envVars, stack, backup>>

\* Prepare -> StatementSync::InitStatement
Prepare(sql) ==
    /\ ~stmt.exists
    /\ IF ~ValidateThread \/ ~IsOpen
       THEN /\ last' = StateError("prepare", <<>>)
            /\ UNCHANGED <<stmt, handle>>
       ELSE /\ stmt' = [NoStmt EXCEPT !.exists = TRUE, !.sql = sql,
                                      !.statement_ = "stmt"]
            /\ handle' = NewHandle(sql)
            /\ last' = Obs("prepare", <<>>, "none", <<>>, <<>>, {}, <<>>, TRUE)
    /\ UNCHANGED <<connection_, table, iter>>
    /\ UNCHANGED <<aggVars, envVars, dbVars, runVars>>

\* the destructor with its test left out: it always calls sqlite3_finalize
DestructorFinalizesAlways(st) == TRUE

\* the test of ~StatementSync: it calls sqlite3_finalize
DestructorFinalizes(st) == st.statement_ # "null" /\ ~st.finalized_

\* Prepare of a text the engine rejects: the StatementSync object is
\* constructed, InitStatement throws with statement_ still null, and the
\* object, which the host never receives, is torn down
PrepareRejected ==
    /\ ~stmt.exists
    /\ IF ~ValidateThread \/ ~IsOpen
       THEN last' = StateError("prepare", <<>>)
       ELSE last' = Obs("prepare", <<>>, "ERR_SQLITE_ERROR",
                        IF DestructorFinalizes(NoStmt) THEN <<"prepare", "finalize">>
                        ELSE <<"prepare">>,
                        <<>>, {}, <<>>, FALSE)
    /\ UNCHANGED <<connection_, table, stmt, handle, iter>>
    /\ UNCHANGED <<aggVars, envVars, dbVars, runVars>>

\* the host drops the statement and its iterator: ~StatementSync
DestroyStatement ==
    /\ stmt.exists
    /\ last' = Obs("~StatementSync", <<>>, "none",
                   IF DestructorFinalizes(stmt) THEN <<"finalize">> ELSE <<>>,
                   <<>>, {}, <<>>, TRUE)
    /\ stmt' = NoStmt
    /\ handle' = NoHandle
    /\ iter' = NoIter
    /\ functions' = IF DestructorFinalizes(stmt)
                    THEN sqlite3_finalize(functions, handle) ELSE functions
    /\ UNCHANGED <<connection_, table>>
    /\ UNCHANGED <<aggVars, envVars, runVars>>

-----------------------------------------------------------------------------
(* CustomAggregate: the aggregate / window function bridge                 *)

\* a reference to the host object at address a; a number that is NaN
HRef(a) == [k |-> "ref", v |-> a, props |-> <<>>]
HNaN    == [k |-> "nan", v |-> 0, props |-> <<>>]

Invocations == {1, 2}

\* the host callbacks an aggregate is registered with, by what they do to
\* (acc, x) with the start object's contents h: [threw, v, h]
\*   add        (acc, x) => acc + x
\*   subtract   (acc, x) => acc - x
\*   accumulate (acc, x) => { acc.sum += x; return acc }
\*   forget     (acc, x) => {}
CallStep(fn, acc, x, h) ==
    LET ret(v) == [threw |-> FALSE, v |-> v, h |-> h]
        throw  == [threw |-> TRUE, v |-> HUndefined, h |-> h]
    IN  CASE fn = "add" ->
               IF acc.k \in {"string", "ref"} THEN ret(HString(0))
               ELSE IF x.k # "number" THEN throw
               ELSE IF acc.k = "number" THEN ret(HNumber(acc.v + x.v))
               ELSE IF acc.k = "null" THEN ret(HNumber(x.v))
               ELSE ret(HNaN)
          [] fn = "subtract" ->
               IF x.k # "number" THEN throw
               ELSE IF acc.k = "number" THEN ret(HNumber(acc.v - x.v))
               ELSE IF acc.k = "null" THEN ret(HNumber(0 - x.v))
               ELSE ret(HNaN)
          [] fn = "accumulate" ->
               IF acc.k = "null" THEN throw
               ELSE IF acc.k = "ref" /\ x.k = "number"
               THEN [threw |-> FALSE, v |-> acc, h |-> h + x.v]
               ELSE ret(acc)
          [] OTHER -> ret(HUndefined)

\* the result callbacks: [threw, v]
\*   double  acc => acc * 2
\*   sum     acc => acc.sum
CallResult(fn, acc, h) ==
    CASE fn = "double" ->
            IF acc.k = "number" THEN [threw |-> FALSE, v |-> HNumber(2 * acc.v)]
            ELSE IF acc.k = "null" THEN [threw |-> FALSE, v |-> HNumber(0)]
            ELSE [threw |-> FALSE, v |-> HNaN]
      [] fn = "sum" ->
            IF acc.k = "null" THEN [threw |-> TRUE, v |-> HUndefined]
            ELSE IF acc.k = "ref" THEN [threw |-> FALSE, v |-> HNumber(h)]
            ELSE [threw |-> FALSE, v |-> HUndefined]
      [] OTHER -> [threw |-> FALSE, v |-> acc]

\* the constructor: the start value is captured by type, an object as one
\* reference held by the registration
CustomAggregate(start, step_fn, inverse_fn, result_fn) ==
    [registered |-> TRUE,
     use_bigint_args_ |-> FALSE,
     start_type_ |-> CASE start.k = "null" -> "PRIMITIVE_NULL"
                       [] start.k = "undefined" -> "PRIMITIVE_UNDEFINED"
                       [] start.k = "number" -> "PRIMITIVE_NUMBER"
                       [] OTHER -> "OBJECT",
     number_value_ |-> IF start.k = "number" THEN start.v ELSE 0,
     object_ref_ |-> IF start.k = "ref" THEN start.v ELSE 0,
     step_fn_ |-> step_fn, inverse_fn_ |-> inverse_fn, result_fn_ |-> result_fn]

NoAggregate ==
    [registered |-> FALSE, use_bigint_args_ |-> FALSE,
     start_type_ |-> "PRIMITIVE_NULL", number_value_ |-> 0, object_ref_ |-> 0,
     step_fn_ |-> "absent", inverse_fn_ |-> "absent", result_fn_ |-> "absent"]

GetStartValue(self) ==
    CASE self.start_type_ = "PRIMITIVE_NULL" -> HNull
      [] self.start_type_ = "PRIMITIVE_UNDEFINED" -> HUndefined
      [] self.start_type_ = "PRIMITIVE_NUMBER" -> HNumber(self.number_value_)
      [] self.start_type_ = "OBJECT" -> HRef(self.object_ref_)

\* AggregateData in engine memory: zeroed when the engine allocates it
ZeroedData == [initialized |-> FALSE, first_call |-> FALSE, value |-> HNull]

GetAggregate(agg) ==
    IF agg.initialized # TRUE
    THEN [initialized |-> TRUE, first_call |-> TRUE, value |-> HNull]
    ELSE agg

\* a BigInt is kept as the int64_t that Int64Value returns, whether or not
\* the conversion was lossless
StoreJSValueAsRaw(agg, value) ==
    IF value.k = "bigint"
    THEN [agg EXCEPT !.value = JSBigInt(Int64Value(value.v))]
    ELSE [agg EXCEPT !.value = value]

RawValueToJS(agg) == agg.value

SqliteValueToJS(self, value) ==
    CASE value.t = "INTEGER" ->
            IF self.use_bigint_args_ THEN HBigInt(value.v) ELSE HNumber(value.v)
      [] value.t = "FLOAT" -> HNumber(value.v)
      [] value.t = "TEXT"  -> HString(value.v)
      [] OTHER -> HNull

\* the Host -> Engine conversion of an emitted result; the engine stores a
\* NaN double as NULL
JSValueToSqliteResult(value) ==
    CASE value.k \in {"null", "undefined"} -> ENull
      [] value.k \in {"boolean", "bigint", "number"} -> EInteger(value.v)
      [] value.k = "nan" -> ENull
      [] value.k = "string" -> EText(value.v)
      [] OTHER -> EText(0)

\* what the callback is handed: the value and, for the start object, the
\* contents it finds there
Seen(v, h) == IF v.k = "ref" THEN h ELSE 0

\* xStepBase: [data, heap, err, passed, seen]
xStepBase(self, agg0, h, use_inverse, x) ==
    LET agg     == GetAggregate(agg0)
        fn      == IF use_inverse THEN self.inverse_fn_ ELSE self.step_fn_
        agg_val == IF agg.first_call THEN GetStartValue(self) ELSE RawValueToJS(agg)
        agg1    == IF agg.first_call
                   THEN [StoreJSValueAsRaw(agg, agg_val) EXCEPT !.first_call = FALSE]
                   ELSE agg
        c       == CallStep(fn, agg_val, SqliteValueToJS(self, x), h)
        res(d, hh, e) == [data |-> d, heap |-> hh, err |-> e,
                          passed |-> agg_val, seen |-> Seen(agg_val, h)]
    IN  IF fn = "absent"
        THEN [data |-> agg, heap |-> h, err |-> "Inverse function not provided",
              passed |-> HUndefined, seen |-> 0]
        ELSE IF c.threw THEN res(agg1, c.h, "Aggregate step error")
        ELSE IF c.v = HUndefined
        THEN res(agg1, c.h, "Step function returned empty/undefined")
        ELSE res(StoreJSValueAsRaw(agg1, c.v), c.h, "none")

\* xValueBase keeping the emitted value as the running value
xValueBaseStoring(self, agg0, h, finalize) ==
    LET agg == GetAggregate(agg0)
        final_value == RawValueToJS(agg)
        r == IF self.result_fn_ # "absent"
             THEN CallResult(self.result_fn_, final_value, h)
             ELSE [threw |-> FALSE, v |-> final_value]
    IN  IF r.threw
        THEN [data |-> agg, destroyed |-> FALSE, err |-> "result callback threw",
              ev |-> ENull]
        ELSE [data |-> [StoreJSValueAsRaw(agg, r.v) EXCEPT !.first_call = FALSE],
              destroyed |-> finalize, err |-> "none",
              ev |-> JSValueToSqliteResult(r.v)]

\* xValueBase: [data, destroyed, err, ev]
xValueBase(self, agg0, h, finalize) ==
    LET agg == GetAggregate(agg0)
        final_value == RawValueToJS(agg)
        r == IF self.result_fn_ # "absent"
             THEN CallResult(self.result_fn_, final_value, h)
             ELSE [threw |-> FALSE, v |-> final_value]
    IN  IF r.threw
        THEN [data |-> agg, destroyed |-> FALSE, err |-> "result callback threw",
              ev |-> ENull]
        ELSE [data |-> agg, destroyed |-> finalize, err |-> "none",
              ev |-> JSValueToSqliteResult(r.v)]

\* an invocation: its context memory, and the Step / Inverse calls it has
\* received (history), and whether one of them reported an error
NoContext == [phase |-> "idle", data |-> ZeroedData, calls |-> <<>>,
              failed |-> FALSE, destroyed |-> FALSE]

NoOut == [inv |-> 0, op |-> "none", passed |-> HUndefined, seen |-> 0,
          err |-> "none", ev |-> ENull, calls |-> <<>>, x |-> ENull,
          failed |-> FALSE]

RECURSIVE Count(_, _)
Count(calls, inverse) ==
    IF calls = <<>> THEN 0
    ELSE (IF Head(calls).inverse = inverse THEN 1 ELSE 0) + Count(Tail(calls), inverse)

\* DatabaseSync::AggregateFunction: an undefined start registers as null;
\* the start object is created holding {sum: 0}
AggregateFunction(start, step_fn, inverse_fn, result_fn) ==
    /\ ~aggregate.registered
    /\ IF ~IsOpen
       THEN /\ out' = [NoOut EXCEPT !.op = "aggregate", !.err = "ERR_INVALID_STATE"]
            /\ UNCHANGED <<aggregate, heap>>
       ELSE /\ aggregate' = CustomAggregate(IF start.k = "undefined" THEN HNull ELSE start,
                                            step_fn, inverse_fn, result_fn)
            /\ heap' = 0
            /\ out' = [NoOut EXCEPT !.op = "aggregate"]
    /\ UNCHANGED ctx
    /\ UNCHANGED <<stmtVars, envVars, dbVars, runVars>>

\* the engine hands the k-th row (value k) to the k-th Step and retracts
\* rows in the order it added them
StepLike(i, use_inverse) ==
    LET c == ctx[i]
        x == EInteger(Count(c.calls, use_inverse) + 1)
        r == xStepBase(aggregate, c.data, heap, use_inverse, x)
    IN  /\ ctx' = [ctx EXCEPT ![i] = [c EXCEPT !.phase = "active", !.data = r.data,
                       !.calls = Append(c.calls, [inverse |-> use_inverse, x |-> x]),
                       !.failed = r.err # "none"]]
        /\ heap' = r.heap
        /\ out' = [inv |-> i, op |-> IF use_inverse THEN "inverse" ELSE "step",
                   passed |-> r.passed, seen |-> r.seen, err |-> r.err,
                   ev |-> ENull, calls |-> c.calls, x |-> x, failed |-> FALSE]
        /\ UNCHANGED aggregate
        /\ UNCHANGED <<stmtVars, envVars, dbVars, runVars>>

xStep(i) ==
    /\ aggregate.registered
    /\ ctx[i].phase # "done" /\ ~ctx[i].failed
    /\ Count(ctx[i].calls, FALSE) < MaxAggRows
    /\ StepLike(i, FALSE)

\* registered with the engine only when an inverse callback was supplied
xInverse(i) ==
    /\ aggregate.registered /\ aggregate.inverse_fn_ # "absent"
    /\ ctx[i].phase # "done" /\ ~ctx[i].failed
    /\ Count(ctx[i].calls, TRUE) < Count(ctx[i].calls, FALSE)
    /\ StepLike(i, TRUE)

ValueLike(i, finalize) ==
    LET c == ctx[i]
        r == xValueBase(aggregate, c.data, heap, finalize)
    IN  /\ ctx' = [ctx EXCEPT ![i] = [c EXCEPT
                       !.phase = IF finalize THEN "done" ELSE "active",
                       !.data = r.data, !.destroyed = r.destroyed]]
        /\ out' = [inv |-> i, op |-> IF finalize THEN "final" ELSE "value",
                   passed |-> HUndefined, seen |-> 0, err |-> r.err, ev |-> r.ev,
                   calls |-> c.calls, x |-> ENull, failed |-> c.failed]
        /\ UNCHANGED <<aggregate, heap>>
        /\ UNCHANGED <<stmtVars, envVars, dbVars, runVars>>

\* registered with the engine only when an inverse callback was supplied
xValue(i) ==
    /\ aggregate.registered /\ aggregate.inverse_fn_ # "absent"
    /\ ctx[i].phase # "done" /\ ~ctx[i].failed
    /\ ValueLike(i, FALSE)

\* called once per invocation, also to clean up after a failed Step
xFinal(i) ==
    /\ aggregate.registered
    /\ ctx[i].phase # "done"
    /\ ValueLike(i, TRUE)

-----------------------------------------------------------------------------
(* Integer arguments of user-defined functions, and integer results        *)

\* UserDefinedFunction::SqliteValueToJS, SQLITE_INTEGER case, with the
\* safe-integer test left out
UserDefinedFunction_SqliteValueToJS_Unchecked(use_bigint_args_, int_val) ==
    IF use_bigint_args_
    THEN [threw |-> FALSE, v |-> JSBigInt(int_val)]
    ELSE IF WLe(W_INT32_MIN, int_val) /\ WLe(int_val, W_INT32_MAX)
    THEN [threw |-> FALSE, v |-> JSNumber(ToInt32(int_val))]
    ELSE [threw |-> FALSE, v |-> JSNumber(ToDouble(int_val))]

\* UserDefinedFunction::SqliteValueToJS, SQLITE_INTEGER case: [threw, v]
UserDefinedFunction_SqliteValueToJS(use_bigint_args_, int_val) ==
    IF use_bigint_args_
    THEN [threw |-> FALSE, v |-> JSBigInt(int_val)]
    ELSE IF WLe(W_INT32_MIN, int_val) /\ WLe(int_val, W_INT32_MAX)
    THEN [threw |-> FALSE, v |-> JSNumber(ToInt32(int_val))]
    ELSE IF WLt(int_val, WNeg(W_MAX_SAFE)) \/ WLt(W_MAX_SAFE, int_val)
    THEN [threw |-> TRUE, v |-> HUndefined]
    ELSE [threw |-> FALSE, v |-> JSNumber(ToDouble(int_val))]

\* CustomAggregate::SqliteValueToJS, SQLITE_INTEGER case over the full
\* 64-bit range
CustomAggregate_SqliteValueToJS(use_bigint_args_, int_val) ==
    IF use_bigint_args_ THEN JSBigInt(int_val) ELSE JSNumber(ToDouble(int_val))

\* Host values of the kinds the Host -> Engine conversions tell apart: a
\* Number is JSNumber(d) when d is integral and HFraction(d) when it is
\* d + 1/2; engine values over the full range, and an error result
HFraction(d) == [k |-> "fraction", v |-> d, props |-> <<>>]
HBuffer      == [k |-> "buffer", v |-> 0, props |-> <<>>]
HFunction    == [k |-> "function", v |-> 0, props |-> <<>>]

HostValues ==
    {HNull, HUndefined, HBoolean(1), HBoolean(0), HString(1), HBuffer, HFunction,
     HObject(0, <<>>), HFraction(WZero)}
    \cup {JSNumber(ToDouble(w)) : w \in Int64s \cup {<<65536, 0, 0>>}}
    \cup {JSBigInt(w) : w \in BigInts}

\* engine values [t, of, v]: an integer, a double (of a Number that is
\* integral or not), the text a host value of kind `of' renders to, a blob,
\* NULL, and the error a conversion reports instead of a value
EValue(t, of, v) == [t |-> t, of |-> of, v |-> v]
EInt64(w)   == EValue("INTEGER", "", w)
EDouble(h)  == EValue("FLOAT", h.k, h.v)
ETextOf(h)  == EValue("TEXT", h.k, IF h.k = "bigint" THEN h.v ELSE <<0, 0, h.v>>)
EBlob       == EValue("BLOB", "", WZero)
ENullValue  == EValue("NULL", "", WZero)
EError      == EValue("ERROR", "", WZero)

\* static_cast<sqlite3_int64> of an integral double: undefined when the
\* double is 2^63, where the build gives one of the two ends of the range
DoubleToInt64(d, ub) ==
    IF WLe(W_INT64_MIN, d) /\ WLe(d, W_INT64_MAX) THEN d ELSE ub

\* BindSingleParameter over these values: the engine value bound
BindSingleParameterValue(param) ==
    CASE param.k \in {"null", "undefined"} -> ENullValue
      [] param.k = "bigint" ->
            IF Int64Value(param.v) = param.v THEN EInt64(param.v)
            ELSE ETextOf(param)
      [] param.k = "number" ->
            IF WLe(W_INT32_MIN, param.v) /\ WLe(param.v, W_INT32_MAX)
            THEN EInt64(ToInt32(param.v))
            ELSE EDouble(param)
      [] param.k = "fraction" -> EDouble(param)
      [] param.k = "string" -> ETextOf(param)
      [] param.k = "boolean" -> EInt64(<<0, 0, param.v>>)
      [] param.k = "buffer" -> EBlob
      [] param.k = "function" -> ENullValue
      [] OTHER -> ETextOf(param)

\* UserDefinedFunction::JSValueToSqliteResult
UserDefinedFunction_JSValueToSqliteResult(value, ub) ==
    CASE value.k \in {"null", "undefined"} -> ENullValue
      [] value.k = "boolean" -> EInt64(<<0, 0, value.v>>)
      [] value.k = "bigint" ->
            IF Int64Value(value.v) = value.v THEN EInt64(value.v)
            ELSE ETextOf(value)
      [] value.k = "number" ->
            IF WLe(ToDouble(W_INT64_MIN), value.v) /\ WLe(value.v, ToDouble(W_INT64_MAX))
            THEN EInt64(DoubleToInt64(value.v, ub))
            ELSE EDouble(value)
      [] value.k = "fraction" -> EDouble(value)
      [] value.k = "string" -> ETextOf(value)
      [] value.k = "buffer" -> EBlob
      [] OTHER -> ETextOf(value)

\* CustomAggregate::JSValueToSqliteResult over these values
CustomAggregate_JSValueToSqliteResult(value, ub) ==
    CASE value.k \in {"null", "undefined"} -> ENullValue
      [] value.k = "boolean" -> EInt64(<<0, 0, value.v>>)
      [] value.k = "bigint" ->
            IF Int64Value(value.v) = value.v THEN EInt64(value.v)
            ELSE EError
      [] value.k = "number" ->
            IF WLe(ToDouble(W_INT64_MIN), value.v) /\ WLe(value.v, ToDouble(W_INT64_MAX))
            THEN EInt64(DoubleToInt64(value.v, ub))
            ELSE EDouble(value)
      [] value.k = "fraction" -> EDouble(value)
      [] value.k = "string" -> ETextOf(value)
      [] value.k = "buffer" -> EBlob
      [] OTHER -> ETextOf(value)

NoConv == [op |-> "none", in |-> HUndefined, big |-> FALSE, arrays |-> FALSE,
           res |-> HUndefined, err |-> "none", called |-> FALSE]

\* Run, from sqlite3_last_insert_rowid on: the identity the engine reports
\* becomes the lastInsertRowid of the result
RunLastInsertRowid(last_rowid) ==
    /\ conv' = [NoConv EXCEPT !.op = "rowid", !.in = last_rowid,
                              !.res = LastInsertRowid(last_rowid)]
    /\ UNCHANGED <<stmtVars, aggVars, this_thread, lock, dbVars, runVars>>

\* CreateResult on a row with one INTEGER column
CreateResultOfInteger(int_val, use_big_ints_, return_arrays_) ==
    /\ conv' = [NoConv EXCEPT !.op = "fetch", !.in = int_val,
                              !.big = use_big_ints_, !.arrays = return_arrays_,
                              !.res = CreateResultInteger(int_val, use_big_ints_,
                                                          return_arrays_)]
    /\ UNCHANGED <<stmtVars, aggVars, this_thread, lock, dbVars, runVars>>

\* xFunc with one INTEGER argument: the arguments are converted, then the
\* callback is called; an exception of the conversion is caught and
\* reported with sqlite3_result_error
xFunc(use_bigint_args_, int_val) ==
    /\ \E r \in {UserDefinedFunction_SqliteValueToJS(use_bigint_args_, int_val)} :
          conv' = [NoConv EXCEPT !.op = "xFunc", !.in = int_val,
                                 !.big = use_bigint_args_,
                                 !.res = r.v,
                                 !.err = IF r.threw THEN "sqlite3_result_error"
                                         ELSE "none",
                                 !.called = ~r.threw]
    /\ UNCHANGED <<stmtVars, aggVars, this_thread, lock, dbVars, runVars>>

\* xStepBase with one INTEGER row argument, from the conversion of the
\* arguments to the call of the step or inverse callback
xStepBaseOfInteger(use_bigint_args_, int_val) ==
    /\ conv' = [NoConv EXCEPT !.op = "xStepBase", !.in = int_val,
                              !.big = use_bigint_args_,
                              !.res = CustomAggregate_SqliteValueToJS(
                                          use_bigint_args_, int_val),
                              !.called = TRUE]
    /\ UNCHANGED <<stmtVars, aggVars, this_thread, lock, dbVars, runVars>>

\* one host value bound as a parameter, returned by a scalar function and
\* emitted as the result of an aggregate
HostToEngineOf(value, ub) ==
    /\ conv' = [NoConv EXCEPT !.op = "toEngine", !.in = value,
                              !.res = [bind |-> BindSingleParameterValue(value),
                                       scalar |-> UserDefinedFunction_JSValueToSqliteResult(value, ub),
                                       aggregate |-> CustomAggregate_JSValueToSqliteResult(value, ub)]]
    /\ UNCHANGED <<stmtVars, aggVars, this_thread, lock, dbVars, runVars>>

\* the values a step callback may return
Returned == {JSBigInt(w) : w \in BigInts} \cup {HRef(0), HNumber(1), HNull}

\* the end of one xStepBase and the start of the next of the same
\* invocation: the callback's result is stored, and read back as the
\* accumulator of the next callback
StoreAndLoad(value) ==
    /\ \E agg \in {StoreJSValueAsRaw(GetAggregate(ZeroedData), value)} :
          conv' = [NoConv EXCEPT !.op = "carry", !.in = value,
                                 !.res = RawValueToJS(agg), !.called = TRUE]
    /\ UNCHANGED <<stmtVars, aggVars, this_thread, lock, dbVars, runVars>>

-----------------------------------------------------------------------------
(* Specifications.  Spec: the life cycle of a statement over table t       *)
(* (prepare, execute, iterate, finalize, close and reopen, teardown).      *)
(* SpecExec: execution and iteration with positional arguments.  SpecBind: *)
(* by-name and positional binding on the statements with named parameters. *)
(* SpecAgg: one registered aggregate with two invocations in progress.     *)

FlagArgs == {HBoolean(0), HBoolean(1), HNumber(1)}

FullTable == [i \in 1..MaxRows |-> EInteger(i)]

LifeInfos == {<<>>, <<HNumber(1)>>}

Init ==
    /\ connection_ = "db"
    /\ table = FullTable
    /\ stmt = NoStmt
    /\ handle = NoHandle
    /\ iter = NoIter
    /\ last = NoObs
    /\ aggregate = NoAggregate
    /\ heap = 0
    /\ ctx = [i \in Invocations |-> NoContext]
    /\ out = NoOut
    /\ conv = NoConv
    /\ this_thread = creation_thread_
    /\ lock = "none"
    /\ functions = NoFunctions
    /\ stack = NoStack
    /\ ext = NoExt
    /\ backup = NoBackup

Next ==
    \/ Open
    \/ Close
    \/ Prepare(SqlSelectT)
    \/ PrepareRejected
    \/ DestroyStatement
    \/ \E info \in LifeInfos : Run(info)
    \/ \E info \in LifeInfos : Get(info)
    \/ \E info \in LifeInfos : All(info)
    \/ \E info \in LifeInfos : Iterate(info)
    \/ FinalizeStatement
    \/ ExpandedSQLGetter
    \/ \E arg \in FlagArgs : SetReadBigInts(arg)
    \/ \E arg \in FlagArgs : SetReturnArrays(arg)
    \/ \E arg \in FlagArgs : SetAllowBareNamedParameters(arg)
    \/ Columns
    \/ IterNext
    \/ Return

Spec == Init /\ [][Next]_vars

\* SpecExec: execution and iteration with positional arguments
NextExec ==
    \/ Prepare(SqlSelectT)
    \/ DestroyStatement
    \/ \E info \in PosInfos : Run(info)
    \/ \E info \in PosInfos : Get(info)
    \/ \E info \in PosInfos : All(info)
    \/ \E info \in PosInfos : Iterate(info)
    \/ IterNext
    \/ Return

SpecExec == Init /\ [][NextExec]_vars

\* SpecBind: by-name and positional binding
NextBind ==
    \/ \E sql \in {SqlSelectN, SqlSelectAX} : Prepare(sql)
    \/ DestroyStatement
    \/ \E arg \in {HBoolean(0), HBoolean(1)} : SetAllowBareNamedParameters(arg)
    \/ \E info \in BindInfos : Run(info)
    \/ \E info \in BindInfos : Get(info)
    \/ \E info \in BindInfos : All(info)
    \/ \E info \in BindInfos : Iterate(info)

SpecBind == Init /\ [][NextBind]_vars

\* SpecAgg: one registered aggregate and two invocations of it in progress
Registrations ==
    {<<HNumber(0), "add", "absent", "absent">>,
     <<HNumber(0), "add", "absent", "double">>,
     <<HNumber(0), "add", "subtract", "absent">>,
     <<HUndefined, "add", "subtract", "double">>,
     <<HRef(0), "accumulate", "absent", "sum">>,
     <<HUndefined, "accumulate", "absent", "sum">>,
     <<HNumber(0), "forget", "absent", "absent">>}

NextAgg ==
    \/ \E r \in Registrations : AggregateFunction(r[1], r[2], r[3], r[4])
    \/ \E i \in Invocations : xStep(i)
    \/ \E i \in Invocations : xInverse(i)
    \/ \E i \in Invocations : xValue(i)
    \/ \E i \in Invocations : xFinal(i)

SpecAgg == Init /\ [][NextAgg]_vars

\* DatabaseSync::CustomFunction and DatabaseSync::AggregateFunction, from
\* the creation of the function object on: the engine accepts the
\* registration or rejects it (a name or an argument count beyond its
\* limits, a function in use by a running statement)
CreateFunction(op, name, accepted) ==
    /\ IsOpen
    /\ functions.created < MaxObjects
    /\ \E obj \in {functions.created + 1} :
       \E r \in {sqlite3_create_function_v2([functions EXCEPT !.created = obj],
                                            name, obj, accepted)} :
          /\ functions' = IF r.rc # "SQLITE_OK" THEN Delete(r.f, {obj}) ELSE r.f
          /\ last' = Obs(op, <<>>, IF r.rc # "SQLITE_OK" THEN "ERR_SQLITE_ERROR"
                                   ELSE "none",
                         <<>>, <<>>, {}, <<>>, FALSE)
    /\ UNCHANGED <<connection_, table, stmt, handle, iter>>
    /\ UNCHANGED <<aggVars, envVars, runVars>>

CustomFunction(name, accepted) == CreateFunction("function", name, accepted)

RegisterAggregate(name, accepted) == CreateFunction("aggregate", name, accepted)

\* SpecFunc: registrations, re-registrations and rejected registrations of
\* functions, with a statement prepared, finalized and torn down and the
\* connection closed and opened again
NextFunc ==
    \/ \E name \in Names, accepted \in BOOLEAN : CustomFunction(name, accepted)
    \/ \E name \in Names, accepted \in BOOLEAN : RegisterAggregate(name, accepted)
    \/ Open
    \/ Close
    \/ Prepare(SqlSelectT)
    \/ FinalizeStatement
    \/ DestroyStatement

SpecFunc == Init /\ [][NextFunc]_vars

\* A statement whose text calls f is prepared while f is registered
PrepareCalling ==
    /\ functions.reg["f"] # 0
    /\ Prepare(SqlSelectF)

\* All up to the point where its sqlite3_step, evaluating f(v) for the next
\* row, has called the host callback of f: the state checks, Reset and
\* BindParameters are done and the step is on the stack
AllEntersCallback ==
    /\ stmt.exists /\ stmt.sql = SqlSelectF
    /\ stack.op = "none"
    /\ ~StateGuard(stmt, IsOpen)
    /\ table # <<>>
    /\ \E b \in {ResetAndBind(<<>>)} :
          /\ stmt' = b.st
          /\ handle' = [b.h EXCEPT !.st = "run"]
    /\ stack' = [op |-> "all", rows |-> <<>>]
    /\ UNCHANGED <<connection_, table, iter, last>>
    /\ UNCHANGED <<aggVars, envVars, dbVars, ext, backup>>

\* what a sqlite3_step whose statement was finalized while it was running
\* may do when the callback returns (it runs on freed memory)
FreedStepOutcomes == {"SQLITE_ROW", "SQLITE_DONE", "SQLITE_MISUSE", "crash"}

\* The host callback returns into the step, and All goes on from there.
\*   handle alive: the step returns the row, All stores it and steps again,
\*     which calls the callback for the next row or ends the loop;
\*   handle finalized by the callback: the step has an outcome of
\*     FreedStepOutcomes; on a row All reads the columns of statement_,
\*     now null, and steps it, which the engine refuses (SQLITE_MISUSE)
CallbackReturns(outcome) ==
    /\ stack.op = "all"
    /\ IF handle.alive
       THEN /\ outcome = "SQLITE_ROW"
            /\ \E s \in {sqlite3_step(stmt.sql, [handle EXCEPT !.st = "ready"], table)} :
               \E rows \in {stack.rows
                             \o <<CreateResult(stmt, IsOpen, s.row).row>>} :
                  IF s.h.pos < Len(ResultRows(stmt.sql, s.h.binds, table))
                  THEN /\ handle' = [s.h EXCEPT !.st = "run"]
                       /\ stack' = [stack EXCEPT !.rows = rows]
                       /\ UNCHANGED last
                  ELSE /\ handle' = [s.h EXCEPT !.st = "halt"]
                       /\ stack' = NoStack
                       /\ last' = Obs("all", <<>>, "none",
                                      <<"step", "column", "step">>, rows, {},
                                      <<>>, TRUE)
       ELSE /\ outcome \in FreedStepOutcomes
            /\ stack' = NoStack
            /\ last' = Obs("all", <<>>,
                           CASE outcome = "crash" -> "crash"
                             [] outcome = "SQLITE_DONE" -> "none"
                             [] OTHER -> "ERR_SQLITE_ERROR",
                           IF outcome = "SQLITE_ROW"
                           THEN <<"column(null)", "step(null)">> ELSE <<>>,
                           IF outcome = "SQLITE_DONE" THEN stack.rows ELSE <<>>,
                           {}, <<>>, TRUE)
            /\ UNCHANGED handle
    /\ UNCHANGED <<connection_, table, stmt, iter>>
    /\ UNCHANGED <<aggVars, envVars, dbVars, ext, backup>>

\* SpecReentrant: All on a statement calling f, with finalize() and close()
\* (and open, function and prepare) called by the host, from the callback
\* of f as well as outside it
NextReentrant ==
    \/ Open
    \/ Close
    \/ \E name \in Names, accepted \in BOOLEAN : CustomFunction(name, accepted)
    \/ PrepareCalling
    \/ AllEntersCallback
    \/ \E outcome \in FreedStepOutcomes : CallbackReturns(outcome)
    \/ FinalizeStatement
    \/ stack.op = "none" /\ DestroyStatement

SpecReentrant == Init /\ [][NextReentrant]_vars

\* SpecExt: the connection opened with and without allowExtension, closed,
\* functions registered on it, extension loading enabled, disabled and used
NextExt ==
    \/ \E allowExtension \in AllowExtensions : OpenWith(allowExtension)
    \/ Close
    \/ \E enable \in BOOLEAN : EnableLoadExtension(enable)
    \/ \E loaded \in BOOLEAN : LoadExtension(loaded)
    \/ \E name \in Names, accepted \in BOOLEAN : CustomFunction(name, accepted)

SpecExt == Init /\ [][NextExt]_vars

MaxPages == 2  \* the source database has at most this many pages

Rates == {-1, 0, 1}

\* DatabaseSync::Backup: a closed connection rejects the promise at once,
\* otherwise the job is created and queued
Backup(rate, pages) ==
    /\ backup.state \in {"none", "settled"}
    /\ IF ~IsOpen
       THEN /\ last' = Obs("backup", <<HNumber(rate)>>, "database is not open",
                           <<>>, <<>>, {}, <<>>, FALSE)
            /\ UNCHANGED backup
       ELSE /\ backup' = [NoBackup EXCEPT !.state = "queued", !.pages_ = rate,
                                          !.src_pages = pages]
            /\ last' = Obs("backup", <<HNumber(rate)>>, "none", <<>>, <<>>, {},
                           <<>>, FALSE)
    /\ UNCHANGED <<connection_, table, stmt, handle, iter>>
    /\ UNCHANGED <<aggVars, envVars, dbVars, stack, ext>>

ExecuteOutcomes == {"init", "open_failed", "crash"}

\* BackupJob::Execute on the worker thread, up to the loop: the destination
\* is opened and sqlite3_backup_init is given source_->connection() as it
\* is then.  With a null source handle sqlite3_backup_init returns null or
\* dereferences it.
BackupExecute(outcome) ==
    /\ backup.state = "queued"
    /\ IF outcome = "open_failed"
       THEN backup' = [backup EXCEPT !.state = "executed", !.error = TRUE,
                                     !.backup_status_ = "SQLITE_CANTOPEN"]
       ELSE IF IsOpen
       THEN /\ outcome = "init"
            /\ backup' = [backup EXCEPT !.state = "copying", !.source = connection_]
       ELSE IF outcome = "init"
       THEN backup' = [backup EXCEPT !.state = "executed", !.error = TRUE,
                                     !.source = connection_]
       ELSE backup' = [backup EXCEPT !.state = "crashed", !.source = connection_]
    /\ UNCHANGED <<stmtVars, aggVars, envVars, dbVars, stack, ext>>

\* what one sqlite3_backup_step may report besides copying
StepResults == {"ok", "SQLITE_IOERR"}

\* sqlite3_backup_step(backup_, n): [copied, pagecount, rc].  n < 0 copies
\* every remaining page, n = 0 copies none; a locked source copies none
sqlite3_backup_step(b, n, io) ==
    IF lock # "none" THEN [copied |-> b.copied, pagecount |-> b.pagecount, rc |-> lock]
    ELSE IF io # "ok" THEN [copied |-> b.copied, pagecount |-> b.pagecount, rc |-> io]
    ELSE The({[copied |-> b.copied + k, pagecount |-> b.src_pages,
               rc |-> IF b.copied + k = b.src_pages THEN "SQLITE_DONE"
                      ELSE "SQLITE_OK"] :
              k \in {IF n < 0 \/ n > b.src_pages - b.copied
                     THEN b.src_pages - b.copied ELSE n}})

\* one iteration of the while loop of Execute and, when the loop ends with
\* it, the SetError after the loop
BackupStep(io) ==
    /\ backup.state = "copying"
    /\ \E r \in {sqlite3_backup_step(backup, IF backup.pages_ < 0 THEN -1
                                               ELSE backup.pages_, io)} :
       \E total \in {IF backup.total_pages_ = 0 THEN r.pagecount
                     ELSE backup.total_pages_} :
       \E remaining \in {IF r.rc \in {"SQLITE_OK", "SQLITE_DONE"}
                         THEN backup.src_pages - r.copied
                         ELSE backup.remaining_pages} :
       \E status \in {IF r.rc \in {"SQLITE_BUSY", "SQLITE_LOCKED"} THEN "SQLITE_OK"
                      ELSE r.rc} :
          backup' = [backup EXCEPT
                        !.copied = r.copied, !.pagecount = r.pagecount,
                        !.total_pages_ = total, !.remaining_pages = remaining,
                        !.backup_status_ = status,
                        !.turn = 1 - @,
                        !.state = IF (remaining > 0 \/ total = 0)
                                      /\ status = "SQLITE_OK"
                                  THEN "copying" ELSE "executed",
                        !.error = ~((remaining > 0 \/ total = 0)
                                        /\ status = "SQLITE_OK")
                                    /\ status # "SQLITE_DONE"]
    /\ UNCHANGED <<stmtVars, aggVars, envVars, dbVars, stack, ext>>

\* OnOK / OnError on the main thread: Cleanup, then the promise is resolved
\* with total_pages_ or rejected
BackupSettle ==
    /\ backup.state = "executed"
    /\ backup' = [backup EXCEPT !.state = "settled",
                                !.settled = @ + 1,
                                !.outcome = IF backup.error THEN "rejected"
                                            ELSE "resolved",
                                !.value = backup.total_pages_]
    /\ UNCHANGED <<stmtVars, aggVars, envVars, dbVars, stack, ext>>

\* SpecMem: SpecAgg with the accumulator memory of an invocation holding
\* any bytes when the engine hands it out.  GetAggregate reads the byte of
\* the initialized field; Bytes are the memories it tells apart: all zero,
\* and a memory whose initialized byte is 1 and the rest whatever it was.
Bytes == {ZeroedData,
          [initialized |-> TRUE, first_call |-> FALSE, value |-> HNumber(7)]}

sqlite3_aggregate_context(i, bytes) ==
    /\ aggregate.registered
    /\ ctx[i].phase = "idle" /\ ctx[i].calls = <<>>
    /\ ctx[i].data # bytes
    /\ ctx' = [ctx EXCEPT ![i].data = bytes]
    /\ UNCHANGED <<aggregate, heap, out>>
    /\ UNCHANGED <<stmtVars, envVars, dbVars, runVars>>

NextMem ==
    \/ NextAgg
    \/ \E i \in Invocations, bytes \in Bytes : sqlite3_aggregate_context(i, bytes)

SpecMem == Init /\ [][NextMem]_vars

\* SpecEnv: the statement life cycle with host calls arriving on two
\* threads and another connection taking and releasing locks
Threads == {"main", "worker"}

Locks == {"none", "SQLITE_BUSY", "SQLITE_LOCKED"}

HostThread(t) ==
    /\ t # this_thread
    /\ this_thread' = t
    /\ UNCHANGED <<stmtVars, aggVars, conv, lock, dbVars, runVars>>

OtherConnection(l) ==
    /\ l # lock
    /\ lock' = l
    /\ UNCHANGED <<stmtVars, aggVars, conv, this_thread, dbVars, runVars>>

\* SpecBackup: backup jobs of every rate on a connection that is also used
\* and closed by the host while another connection takes and drops locks.
\* The worker thread and the completion callback are scheduled by the
\* host's thread pool and event loop: a job that can go on, goes on.
NextBackup ==
    \/ \E rate \in Rates, pages \in 0..MaxPages : Backup(rate, pages)
    \/ \E outcome \in ExecuteOutcomes : BackupExecute(outcome)
    \/ \E io \in StepResults : BackupStep(io)
    \/ BackupSettle
    \/ Open
    \/ Close
    \/ Prepare(SqlSelectT)
    \/ \E info \in LifeInfos : Run(info)
    \/ \E l \in Locks : OtherConnection(l)

SpecBackup ==
    /\ Init /\ [][NextBackup]_vars
    /\ WF_vars(BackupExecute("init"))
    /\ WF_vars(BackupStep("ok"))
    /\ WF_vars(BackupSettle)

NextEnv ==
    \/ Open
    \/ Close
    \/ Prepare(SqlSelectT)
    \/ DestroyStatement
    \/ \E info \in LifeInfos : Run(info)
    \/ \E info \in LifeInfos : Get(info)
    \/ \E info \in LifeInfos : All(info)
    \/ \E info \in LifeInfos : Iterate(info)
    \/ FinalizeStatement
    \/ Columns
    \/ IterNext
    \/ Return
    \/ \E t \in Threads : HostThread(t)
    \/ \E l \in Locks : OtherConnection(l)

SpecEnv == Init /\ [][NextEnv]_vars

\* SpecNum: the integer conversions, over the 64-bit integers and BigInts
\* around each limit the sources test
NextNum ==
    \/ \E w \in Int64s : RunLastInsertRowid(w)
    \/ \E w \in Int64s, big \in BOOLEAN, arrays \in BOOLEAN :
          CreateResultOfInteger(w, big, arrays)
    \/ \E w \in Int64s, big \in BOOLEAN : xFunc(big, w)
    \/ \E w \in Int64s, big \in BOOLEAN : xStepBaseOfInteger(big, w)
    \/ \E value \in Returned : StoreAndLoad(value)
    \/ \E value \in HostValues, ub \in {W_INT64_MIN, W_INT64_MAX} :
          HostToEngineOf(value, ub)

SpecNum == Init /\ [][NextNum]_vars

-----------------------------------------------------------------------------
(* Properties of the statement lifecycle, execution and binding            *)

ExecOps == {"run", "get", "all", "iterate"}

\* what the slots hold once a call has bound its arguments: positional
\* arguments in order, nothing for an object without keys
PositionalBinds(sql, info) ==
    [i \in 1..Len(Params(sql)) |->
        IF i <= Len(info) /\ ~IsNamedCall(info)
        THEN HostToEngine(info[i]).ev ELSE ENull]

\* the host rows of an engine result set, as the statement materializes them
HostRows(st, rows) == [i \in 1..Len(rows) |-> CreateResult(st, TRUE, rows[i]).row]

\* C1: after finalize() was called on a statement, run, get, all, iterate,
\* columns, the three flag setters and expandedSQL fail with a state error
\* and make no engine call on the handle, and a further finalize() makes no
\* engine call, raises nothing and changes nothing.
C1_FinalizedIsTerminal ==
    /\ (/\ last.preFin
        /\ last.op \in ExecOps \cup {"columns", "setReadBigInts", "setReturnArrays",
                                     "setAllowBareNamedParameters", "expandedSQL"})
       => (last.err = "ERR_INVALID_STATE" /\ last.calls = <<>> /\ ~last.changed)
    /\ (last.preFin /\ last.op = "finalize")
       => (last.err = "none" /\ last.calls = <<>> /\ ~last.changed)

C1_Witness ==
    /\ last.preFin
    /\ last.op = "get"
    /\ last.err = "ERR_INVALID_STATE"
    /\ connection_ # "null"

\* C2: run, get and all execute from the first row whatever state earlier
\* operations left the statement in: all() returns the whole result set of
\* its arguments, get() its first row, and run() leaves the cursor on the
\* first row.
C2_ExecutesFromFirstRow ==
    (last.op \in {"run", "get", "all"} /\ last.err = "none")
    => LET rows == ResultRows(stmt.sql, PositionalBinds(stmt.sql, last.info), table)
       IN  /\ last.stepBinds = PositionalBinds(stmt.sql, last.info)
           /\ last.op = "all" => last.rows = HostRows(stmt, rows)
           /\ last.op = "get" => last.rows = HostRows(stmt, IF rows = <<>> THEN <<>> ELSE <<rows[1]>>)
           /\ last.op = "run" => handle.pos = (IF rows = <<>> THEN 0 ELSE 1)

C2_Witness ==
    /\ last.op = "all"
    /\ last.err = "none"
    /\ last.preCursor > 0
    /\ iter.exists /\ iter.stepped /\ ~iter.done_
    /\ Len(last.rows) = MaxRows

\* the running value r(f(...f(f(s, x1), x2)..., xn)) is built from: the
\* callbacks applied in call order from the start value, on the start
\* object's contents as registered.  [ok, v, h]; ok is false when a
\* callback threw or returned nothing.
RECURSIVE Fold(_, _, _, _, _)
Fold(self, v, h, calls, k) ==
    IF k > Len(calls) THEN [ok |-> TRUE, v |-> v, h |-> h]
    ELSE LET fn == IF calls[k].inverse THEN self.inverse_fn_ ELSE self.step_fn_
             c  == CallStep(fn, v, SqliteValueToJS(self, calls[k].x), h)
         IN  IF c.threw \/ c.v = HUndefined
             THEN [ok |-> FALSE, v |-> v, h |-> h]
             ELSE Fold(self, c.v, c.h, calls, k + 1)

\* the engine encoding of the result-transform of the folded running value
Emitted(self, calls) ==
    LET f == Fold(self, GetStartValue(self), 0, calls, 1)
        r == CallResult(self.result_fn_, f.v, f.h)
    IN  [ok |-> f.ok /\ ~r.threw, ev |-> JSValueToSqliteResult(r.v)]

\* C3: Final emits the engine encoding of r(f(...f(f(s, x1), x2)..., xn))
\* for the rows x1..xn the invocation received, for every n >= 0, and so
\* r(s) when it received no row.
C3_FinalEmitsFold ==
    (out.op = "final" /\ Emitted(aggregate, out.calls).ok)
    => (out.err = "none" /\ out.ev = Emitted(aggregate, out.calls).ev)

\* C4: every Value call of a window aggregate emits the result-transform of
\* the running value obtained by applying, in call order from the start
\* value, exactly the Step and Inverse calls made so far in the invocation.
C4_ValueEmitsRunningValue ==
    (out.op = "value" /\ Emitted(aggregate, out.calls).ok)
    => (out.err = "none" /\ out.ev = Emitted(aggregate, out.calls).ev)

\* the context an invocation has after the given calls when no other
\* invocation runs: [data, heap]
RECURSIVE Alone(_, _, _, _, _)
Alone(self, agg, h, calls, k) ==
    IF k > Len(calls) THEN [data |-> agg, heap |-> h]
    ELSE LET r == xStepBase(self, agg, h, calls[k].inverse, calls[k].x)
         IN  Alone(self, r.data, r.heap, calls, k + 1)

\* C5: with two invocations of one aggregate interleaved, what an
\* invocation passes to its callbacks and what it emits are what the same
\* calls give when the invocation runs alone, for every kind of start
\* value, a host object the step callback modifies included.
C5_InvocationsAreIsolated ==
    LET a == Alone(aggregate, ZeroedData, 0, out.calls, 1)
        s == xStepBase(aggregate, a.data, a.heap, out.op = "inverse", out.x)
        v == xValueBase(aggregate, a.data, a.heap, out.op = "final")
    IN  /\ out.op \in {"step", "inverse"}
           => (out.passed = s.passed /\ out.seen = s.seen /\ out.err = s.err)
        /\ out.op \in {"value", "final"}
           => (out.err = v.err /\ out.ev = v.ev)

\* C6: on a fresh statement whose flags were never changed,
\* 'SELECT :n AS v' run with get({n: 5}) returns {v: 5}.
C6_BareNameBindsByDefault ==
    (/\ last.op = "get"
     /\ stmt.sql = SqlSelectN
     /\ ~stmt.flagsSet
     /\ last.info = <<HObject(0, <<[key |-> <<"", "n">>, val |-> HNumber(5)]>>)>>)
    => last.rows = <<[arr |-> FALSE, names |-> <<"v">>, vals |-> <<HNumber(5)>>]>>

\* C7: on a statement with both ':a_x' and '$a_x' and bare names enabled,
\* every by-name bind call raises an error before any slot is bound.
C7_CollisionRaisesEveryTime ==
    (/\ last.op \in ExecOps
     /\ stmt.sql = SqlSelectAX
     /\ stmt.allow_bare_named_params_
     /\ IsNamedCall(last.info))
    => (last.err # "none" /\ last.bound = {})

\* C8: when binding raises an error in run, get, all or iterate, the
\* engine is not stepped, no slot keeps a value bound by the call, and
\* iterate returns no cursor.
C8_BindErrorIsAtomic ==
    (last.op \in ExecOps /\ last.err # "none" /\ ~last.preFin /\ ~last.preClosed)
    => /\ \A i \in 1..Len(last.calls) : last.calls[i] # "step"
       /\ \A i \in last.bound : handle.binds[i] = ENull
       /\ last.op = "iterate" => ~last.changed

\* C9: at the first engine step of every run, get, all or iterate call,
\* each slot the call's own arguments did not bind holds Null.
C9_UnboundSlotsAreNull ==
    (last.op \in {"run", "get", "all", "next"} /\ last.stepBinds # <<>>)
    => \A i \in DOMAIN last.stepBinds :
          i \notin last.bound => last.stepBinds[i] = ENull

\* C10: once the connection that prepared a statement has been closed,
\* every later run, get, all, iterate, columns, next() and return() fails
\* with a state error and makes no engine call, also after the connection
\* object has been opened again.
C10_ClosedConnectionIsTerminal ==
    (last.preClosed /\ last.op \in ExecOps \cup {"columns", "next", "return"})
    => (last.err = "ERR_INVALID_STATE" /\ last.calls = <<>>)

\* C11: run() steps until the engine reports Done and only then returns:
\* when run() returns, the statement has run to completion and is not
\* positioned on a row.
C11_RunStepsToDone ==
    (last.op = "run" /\ last.err = "none")
    => (handle.st = "halt" /\ last.calls[Len(last.calls)] = "step")

\* how often an engine call occurs among the calls of one host call
RECURSIVE Times(_, _)
Times(calls, c) ==
    IF calls = <<>> THEN 0
    ELSE (IF Head(calls) = c THEN 1 ELSE 0) + Times(Tail(calls), c)

\* C12: iterate() resets the statement exactly once and does not step;
\* each next() makes at most one engine step; when that step reports Done,
\* or when return() is called, the statement is reset and the iterator is
\* finished; a next() on a finished iterator reports done with no engine
\* call.
C12_IteratorProtocol ==
    /\ (last.op = "iterate" /\ last.err = "none")
       => (Times(last.calls, "reset") = 1 /\ Times(last.calls, "step") = 0)
    /\ last.op = "next"
       => /\ Times(last.calls, "step") <= 1
          /\ Times(last.calls, "reset") =
                (IF last.err = "none" /\ last.rows = <<>> /\ ~last.preDone
                 THEN 1 ELSE 0)
          /\ (last.err = "none" /\ last.rows = <<>>) => iter.done_
          /\ (last.err = "none" /\ last.rows = <<>> /\ ~last.preDone)
             => (handle.st = "ready" /\ handle.pos = 0)
          /\ last.preDone => last.calls = <<>>
          /\ (last.preDone /\ last.err = "none") => last.rows = <<>>
    /\ (last.op = "return" /\ last.err = "none")
       => (iter.done_ /\ last.calls = <<"reset">>
           /\ handle.st = "ready" /\ handle.pos = 0)

C12_Witness ==
    /\ last.op = "next"
    /\ last.preDone
    /\ last.err = "none"
    /\ iter.stepped
    /\ last.calls = <<>>

\* C19: every Final call destroys the invocation's accumulator state
\* before it returns, when the result callback succeeds and when it
\* fails; a Value call never destroys it.
C19_FinalDestroysState ==
    /\ out.op = "final" => ctx[out.inv].destroyed
    /\ out.op = "value" => ~ctx[out.inv].destroyed

InInt32(w) == WLe(W_INT32_MIN, w) /\ WLe(w, W_INT32_MAX)

InSafeEnvelope(w) == WLe(WNeg(W_MAX_SAFE), w) /\ WLe(w, W_MAX_SAFE)

\* C13: the lastInsertRowid of run() equals the engine's last-inserted
\* identity for every 64-bit value: a Number when it fits the native-int
\* range, a BigInt when it lies above or below it, never a wrapped value.
C13_RowidIsExact ==
    conv.op = "rowid"
    => /\ conv.res.v = conv.in
       /\ conv.res.k = (IF InInt32(conv.in) THEN "number" ELSE "bigint")

\* C14: row fetch converts every engine 64-bit integer without an error and
\* without changing its value: to a BigInt when the statement's flag is
\* set or the value is outside the native-int range, to a Number
\* otherwise; kind and value are the same in both row shapes.
C14_FetchIsExact ==
    conv.op = "fetch"
    => /\ conv.err = "none"
       /\ conv.res.v = conv.in
       /\ conv.res.k = (IF conv.big \/ ~InInt32(conv.in) THEN "bigint" ELSE "number")
       /\ conv.res = CreateResultInteger(conv.in, conv.big, ~conv.arrays)

C14_Witness ==
    /\ conv.op = "fetch" /\ ~conv.big /\ conv.arrays
    /\ conv.in = WAdd(W_INT32_MIN, -1)
    /\ conv.res = JSBigInt(conv.in)

\* C15: in a scalar function registered without BigInt arguments, an
\* integer argument outside [-(2^53-1), 2^53-1] ends the invocation with
\* a function-evaluation error and the callback is not invoked; an
\* argument inside it reaches the callback with its exact value.
C15_ScalarArgumentEnvelope ==
    (conv.op = "xFunc" /\ ~conv.big)
    => IF InSafeEnvelope(conv.in)
       THEN conv.err = "none" /\ conv.called /\ conv.res = JSNumber(conv.in)
       ELSE conv.err # "none" /\ ~conv.called

C15_Witness ==
    /\ conv.op = "xFunc" /\ ~conv.big
    /\ conv.in = WAdd(W_MAX_SAFE, 1)
    /\ conv.err # "none" /\ ~conv.called

\* C16: in an aggregate or window function registered without BigInt
\* arguments, an integer row argument outside [-(2^53-1), 2^53-1] ends the
\* Step or Inverse call with a function-evaluation error and the callback
\* is not invoked; the callback never receives a rounded value.
C16_AggregateArgumentEnvelope ==
    (conv.op = "xStepBase" /\ ~conv.big)
    => /\ ~InSafeEnvelope(conv.in) => (conv.err # "none" /\ ~conv.called)
       /\ conv.called => conv.res.v = conv.in

\* C20: the running value is carried unchanged from one callback to the
\* next: the same object for a host object, the exact integer for a
\* BigInt of any magnitude.
C20_RunningValueIsCarried ==
    conv.op = "carry" => conv.res = conv.in

\* C17: every operation on a connection and on a statement that is invoked
\* from a thread other than the one that created the object is rejected
\* with a State error and makes no engine call.
C17_CrossThreadIsRejected ==
    (/\ last.thread # creation_thread_
     /\ last.op \in {"prepare", "close", "run", "get", "all", "iterate",
                     "columns", "finalize"})
    => (last.err = "ERR_INVALID_STATE" /\ last.calls = <<>>)

\* C18: a busy or locked state reported by an engine step of run, get, all
\* or an iterator's next() is not raised to the caller as an error.
C18_BusyIsNotRaised ==
    last.op \in {"run", "get", "all", "next"}
    => last.err \notin {StepError("none", "SQLITE_BUSY"),
                        StepError("none", "SQLITE_LOCKED")}

C22_ReleasedExactlyOnce ==
    \A o \in Objects :
        /\ functions.released[o] <= 1
        /\ (o <= functions.created /\ last.op = "close" /\ last.err = "none")
           => functions.released[o] = 1

\* C23: the engine handle of a prepared statement is never finalized
\* twice: every sqlite3_finalize call made by finalize(), by connection
\* close or by the teardown of the statement object is made on a handle
\* that is alive, also after a failed preparation or an earlier finalize().
C23_FinalizedOnce ==
    [][(last' # last /\ Times(last'.calls, "finalize") > 0)
       => (handle.alive /\ ~handle'.alive)]_vars

C23_Witness ==
    /\ last.op = "~StatementSync" /\ last.preFin
    /\ last.calls = <<>> /\ ~handle.alive

\* C24: parameter binding, scalar-function result conversion and aggregate
\* result conversion apply one Host-to-Engine mapping: the three paths give
\* the same engine kind and value, an integral Number inside the 64-bit
\* range becomes an Integer, a BigInt outside the 64-bit range becomes the
\* Text of its decimal string, and a callable becomes Null.
C24_OneHostToEngineMapping ==
    conv.op = "toEngine"
    => /\ conv.res.bind = conv.res.scalar
       /\ conv.res.scalar = conv.res.aggregate
       /\ (conv.in.k = "number" /\ WLe(W_INT64_MIN, conv.in.v)
                                /\ WLe(conv.in.v, W_INT64_MAX))
          => conv.res.bind = EInt64(conv.in.v)
       /\ (conv.in.k = "bigint" /\ Int64Value(conv.in.v) # conv.in.v)
          => conv.res.bind = ETextOf(conv.in)
       /\ conv.in.k = "function" => conv.res.bind = ENullValue

\* C25: a Value call changes nothing in the invocation's accumulator state:
\* the running value and the firstCall flag are after it what they were
\* before (what the first touch constructs, when it is the first touch),
\* the state is not destroyed, the start object and the other invocation
\* are untouched, so no later call receives or emits anything else.
C25_ValueChangesNothing ==
    [][(out'.op = "value" /\ (out' # out \/ ctx' # ctx))
       => /\ ctx'[out'.inv].data = GetAggregate(ctx[out'.inv].data)
          /\ ctx'[out'.inv].calls = ctx[out'.inv].calls
          /\ ~ctx'[out'.inv].destroyed
          /\ heap' = heap
          /\ \A j \in Invocations \ {out'.inv} : ctx'[j] = ctx[j]]_vars

C25_Witness ==
    /\ out.op = "value" /\ out.err = "none" /\ Len(out.calls) >= 2
    /\ ctx[out.inv].data.value # HNull
    /\ ~ctx[out.inv].destroyed

\* C26: while an engine step of the statement is on the stack, running a
\* host callback, the statement's handle is not finalized and its
\* connection is not closed; and once the callback has returned the
\* stepping operation makes no engine call on a finalized handle.
C26_NoTeardownUnderStep ==
    /\ [](stack.op # "none" => handle.alive /\ IsOpen)
    /\ [][(stack.op # "none" /\ stack'.op = "none" /\ ~handle.alive)
          => \A k \in DOMAIN last'.calls :
                 last'.calls[k] \notin {"step", "column"}]_vars

\* C27: the rows an iterator yields are, in order, a prefix of the result
\* set of the execution it was created for, whatever run, get, all and
\* iterate calls are made on its statement between its next() calls.
C27_IteratorYieldsItsExecution ==
    iter.exists => iter.prefix

\* C29: loadExtension reaches the engine only if the configuration of the
\* current open allowed extensions and the most recent enableLoadExtension
\* since that open was enableLoadExtension(true), accepted by the engine;
\* on a connection whose current open did not allow extensions,
\* enableLoadExtension(true) and loadExtension fail with a State error.
C29_ExtensionsNeedThisOpensConsent ==
    /\ (last.op = "loadExtension" /\ last.calls # <<>>)
           => ext.configured /\ ext.accepted
    /\ (~ext.configured /\ last.op = "loadExtension")
           => last.err = "ERR_INVALID_STATE"
    /\ (~ext.configured /\ last.op = "enableLoadExtension"
                        /\ last.info = <<HBoolean(1)>>)
           => last.err = "ERR_INVALID_STATE"

\* C28: while the worker thread of a backup job is reading the source
\* connection, no statement or function operation executes on that
\* connection and it is not closed; and the worker never reads the handle
\* of a closed connection.
C28_BackupReadsAnIdleConnection ==
    /\ [](backup.state = "copying" => IsOpen)
    /\ [](backup.source # "null")
    /\ [][backup.state = "copying"
            => <<stmt, handle, functions>>' = <<stmt, handle, functions>>]_vars

\* C30: every backup job terminates and settles its promise exactly once,
\* resolved with the total page count or rejected, for every rate,
\* provided busy and locked states eventually clear: the copy loop does
\* not run forever without copying a page.
C30_BackupSettlesOnce ==
    <>[](lock = "none")
        => /\ [](backup.settled <= 1)
           /\ [](backup.outcome = "resolved" => backup.value = backup.src_pages)
           /\ (backup.state = "queued") ~> (backup.state = "settled")

====
